---- MODULE Spec2Model ----
(***************************************************************************)
(* LNDC_Bot: the streaming chat client (src/src/api/mod.rs).               *)
(*                                                                         *)
(* APIClient::get_chat_response is an async function.  Every call is a     *)
(* task that runs from one suspension point (.await) to the next; the      *)
(* actions below are those runs.  The calls share one tokio Semaphore.     *)
(*                                                                         *)
(* Texts are sequences of tokens (strings).  The tokens "\n", "event: "    *)
(* and "data: " are the line break and the two SSE prefixes; every other   *)
(* token is a piece of text.  A JSON document is a token whose meaning     *)
(* (the fields the decoder reads) is given by the table json_doc.          *)
(***************************************************************************)
EXTENDS Integers, Sequences, FiniteSets, TLC

\* ------------------------------------------------------------- bounds
\* Number of get_chat_response calls the callers make.
NumCalls == 2
\* config.api_concurrency_limit as configured for the run (the default is 5).
ConfiguredLimit == 1
\* Number of tasks that call the SessionManager at the same time.
NumProcs == 2
\* Number of session ids Uuid::new_v4 hands out.
MaxSessions == 2

\* --------------------------------------------------------- constants
\* let max_retries = 3;
max_retries == 3

Calls == 1..NumCalls
Procs == 1..NumProcs
\* Uuid::new_v4().to_string(): the ids are numbered in place of 128 random bits.
SessionIds == 1..MaxSessions

\* ------------------------------------------------------------ tokens
NL == "\n"
EVENT_PREFIX == "event: "
DATA_PREFIX == "data: "

\* Option<T> as a sequence of length 0 (None) or 1 (Some).
None == <<>>
Some(x) == <<x>>

\* The JSON documents of the model: token |-> the fields of choices[0] the
\* decoder reads (delta.content, message.content, finish_reason), each an
\* Option of a text (a sequence of tokens) or of a string.
json_doc ==
  [ jHi        |-> [delta |-> Some(<<"Hi">>),     message |-> None,               finish |-> None],
    jThereStop |-> [delta |-> Some(<<" there">>), message |-> None,               finish |-> Some("stop")],
    jBlank     |-> [delta |-> Some(<<" ">>),      message |-> None,               finish |-> None],
    jFull      |-> [delta |-> None,               message |-> Some(<<"Full">>),   finish |-> None],
    jBoth      |-> [delta |-> Some(<<"Both">>),   message |-> Some(<<"Whole">>),  finish |-> None],
    jStatus    |-> [delta |-> None,               message |-> None,               finish |-> None] ]

\* serde_json::from_str::<Value>(data): Some(fields) when data is one whole
\* JSON document, None otherwise.
serde_json_from_str(data) ==
  IF Len(data) = 1 /\ data[1] \in DOMAIN json_doc THEN Some(json_doc[data[1]]) ELSE None

\* s.trim().is_empty()
trim_is_empty(s) == \A i \in 1..Len(s) : s[i] = " "

\* Mutant: a blank text passes the filter.
filter_non_blank_keeps_blank(opt) == opt

\* .as_str().filter(|s| !s.trim().is_empty())
filter_non_blank(opt) == IF opt # None /\ ~trim_is_empty(opt[1]) THEN opt ELSE None

\* str::lines(): the text split at line breaks; a final line break ends the
\* last line and starts no further one.  ends are the positions that end a
\* line: every line break, and the end of a text that a line break does not
\* end.
lines(text) ==
  LET breaks == {i \in 1..Len(text) : text[i] = NL}
      ends == breaks \cup (IF text # <<>> /\ text[Len(text)] # NL THEN {Len(text) + 1} ELSE {})
      start(e) == IF \E b \in breaks : b < e
                  THEN (CHOOSE b \in breaks : b < e /\ \A a \in breaks : a < e => a <= b) + 1
                  ELSE 1
      nth(k) == CHOOSE e \in ends : Cardinality({a \in ends : a <= e}) = k
  IN [k \in 1..Cardinality(ends) |-> SubSeq(text, start(nth(k)), nth(k) - 1)]

\* line.strip_prefix(p)
strip_prefix(line, p) ==
  IF line # <<>> /\ Head(line) = p THEN Some(Tail(line)) ELSE None

\* ------------------------------------------------------- environment
\* One item of response.bytes_stream(): a chunk of text, or a read error.
chunk(text) == [ok |-> TRUE, text |-> text]
read_error == [ok |-> FALSE, text |-> <<>>]

\* One SSE frame: event: <name>\ndata: <json>\n\n
frame(name, json) == <<EVENT_PREFIX, name, NL, DATA_PREFIX, json, NL, NL>>

\* The body of a response that is not streamed: one JSON completion object
\* and no `event: `/`data: ` framing.
completion_object(json) == <<json>>

\* The bodies a 2xx response may stream to the calls that share the gate: one
\* frame that ends the answer, and a stream that breaks at once.
GateBodies ==
  { <<chunk(frame("answer", "jThereStop"))>>,
    <<read_error>> }

\* The bodies a 2xx response may stream to the call studied alone.
Bodies ==
  { <<>>,
    <<chunk(frame("answer", "jHi")), chunk(frame("answer", "jThereStop"))>>,
    <<chunk(frame("flowNodeStatus", "jStatus") \o <<DATA_PREFIX, "jHi", NL>>), read_error>>,
    <<chunk(<<DATA_PREFIX, "jFull", NL, EVENT_PREFIX, "fastAnswer", NL>>),
      chunk(<<DATA_PREFIX, "jFull", NL, NL, EVENT_PREFIX, "answer", NL, DATA_PREFIX, "jBlank">>)>>,
    \* a payload that is not JSON, then the frame that ends the answer
    <<chunk(frame("answer", "{bad") \o frame("answer", "jThereStop"))>>,
    \* the frame that ends the answer, a further frame in its chunk, a further chunk
    <<chunk(frame("answer", "jThereStop") \o frame("answer", "jHi")),
      chunk(frame("answer", "jHi"))>>,
    \* deltas that are text, blank and absent, then the frame that ends the answer
    <<chunk(frame("answer", "jHi") \o frame("answer", "jBlank") \o frame("answer", "jStatus")),
      chunk(frame("answer", "jThereStop"))>>,
    \* a whole message first, deltas after it
    <<chunk(frame("answer", "jFull") \o frame("answer", "jThereStop"))>>,
    \* the two kinds interleaved, each with deltas and whole messages
    <<chunk(frame("answer", "jHi") \o frame("fastAnswer", "jBoth") \o frame("fastAnswer", "jFull")),
      chunk(frame("answer", "jFull") \o frame("answer", "jThereStop"))>>,
    <<chunk(frame("fastAnswer", "jHi") \o frame("answer", "jFull") \o frame("answer", "jThereStop"))>>,
    \* an event of another name whose payload ends the answer
    <<chunk(frame("flowNodeStatus", "jThereStop") \o frame("answer", "jHi"))>>,
    \* the answer to a request with stream: false
    <<chunk(completion_object("jFull"))>>,
    \* an event name and no data
    <<chunk(<<EVENT_PREFIX, "answer", NL, NL>>)>> }

\* What one POST attempt may come to: a 2xx response with its body stream, a
\* non-2xx response with its status and body (whose read may fail), or a
\* transport error with its cause.
ok_response(stream) ==
  [kind |-> "ok", status |-> 200, text |-> <<>>, readable |-> TRUE, stream |-> stream]
status_response(status, text, readable) ==
  [kind |-> "status", status |-> status, text |-> text, readable |-> readable, stream |-> <<>>]
transport_error(cause) ==
  [kind |-> "transport", status |-> 0, text |-> cause, readable |-> TRUE, stream |-> <<>>]

\* The responses to the calls that share the gate.
GateResponses ==
  { ok_response(b) : b \in GateBodies } \cup { transport_error(<<"timeout">>) }

\* The responses to the call studied alone.
Responses ==
  { ok_response(b) : b \in Bodies }
  \cup { status_response(500, <<"overloaded">>, TRUE), status_response(429, <<"slow down">>, FALSE) }
  \cup { transport_error(<<"timeout">>) }

\* ------------------------------------------------------------- state
VARIABLES
  permits,       \* semaphore: the permits not handed out
  waiters,       \* semaphore: the calls queued in acquire_owned, oldest first
  pc,            \* call |-> where the call is
  permit,        \* call |-> whether its _permit is alive
  attempts,      \* call |-> let mut attempts
  byte_stream,   \* call |-> the items of response.bytes_stream() not yet read
  dec,           \* call |-> the locals of the decode loop
  result,        \* call |-> what the call returned
  issued,        \* call |-> the number of POSTs the transport received
  outcomes,      \* call |-> what each POST attempt came to, in order
  slept,         \* call |-> the seconds of every sleep(backoff), in order
  on_event_log,  \* call |-> the (event, data) of every on_event invocation, in order
  on_event_ret,  \* call |-> whether each on_event invocation returned Ok, in order
  fs,            \* the sessions directory: session id |-> its directory
  task,          \* process |-> the SessionManager operation it runs
  allocated,     \* the session ids Uuid::new_v4 has handed out
  now,           \* SystemTime::now(), in ticks
  cmd,           \* the locals of the command that made call 1
  rendered,      \* the markdown texts the renderer was given, in order
  replies        \* the image replies sent to the user, in order

vars == <<permits, waiters, pc, permit, attempts, byte_stream, dec, result,
          issued, outcomes, slept, on_event_log, on_event_ret,
          fs, task, allocated, now, cmd, rendered, replies>>
gate == <<permits, waiters, permit>>
observed == <<issued, outcomes, slept, on_event_log, on_event_ret>>
\* The state of get_chat_response and of what it was seen to do.
client == <<permits, waiters, pc, permit, attempts, byte_stream, dec, result,
            issued, outcomes, slept, on_event_log, on_event_ret>>
\* The state of the SessionManager and of the file system under it.
store == <<fs, task, allocated, now>>
\* The state of the command around the call.
command == <<cmd, rendered, replies>>

\* let mut events = Vec::new(); ... let mut done = false;
\* rest: the lines of the current chunk the for loop has not reached;
\* data: the data of the line being handled.
decoder_init ==
  [events |-> <<>>, fast_answer |-> <<>>, answer_delta |-> <<>>,
   current_event |-> <<>>, done |-> FALSE, rest |-> <<>>, data |-> <<>>]

no_result ==
  [kind |-> "none", status |-> 0, text |-> <<>>, content |-> <<>>, events |-> <<>>]
\* Err(anyhow!("API请求失败: {}, {}", status, error_text))
remote_error(status, error_text) ==
  [kind |-> "remote", status |-> status, text |-> error_text, content |-> <<>>, events |-> <<>>]
\* Err(anyhow!("发送API请求失败: {}", e))
send_error(e) ==
  [kind |-> "transport", status |-> 0, text |-> e, content |-> <<>>, events |-> <<>>]
\* item.context("读取流式数据失败")?
stream_error ==
  [kind |-> "read", status |-> 0, text |-> <<>>, content |-> <<>>, events |-> <<>>]
\* on_event(&current_event, data).await?
callback_error ==
  [kind |-> "callback", status |-> 0, text |-> <<>>, content |-> <<>>, events |-> <<>>]
\* Mutant: the content is the answer buffer, the fastAnswer buffer only when
\* the answer buffer is empty.
chat_response_picks_one(d) ==
  [kind |-> "ok", status |-> 0, text |-> <<>>,
   content |-> IF d.answer_delta # <<>> THEN d.answer_delta ELSE d.fast_answer,
   events |-> d.events]

\* Ok(ChatResponse { content, raw_response, events })
chat_response(d) ==
  [kind |-> "ok", status |-> 0, text |-> <<>>,
   content |-> d.fast_answer \o d.answer_delta, events |-> d.events]

\* ---------------------------------------------------------- the clock
\* The clock counts ticks, TicksPerSecond of them in a second.
TicksPerSecond == 2

\* The last tick of the clock of the specifications that start at time 0.
MaxTicks == 2

\* Duration::as_secs: the whole seconds of the duration.
as_secs(duration) == duration \div TicksPerSecond

\* ------------------------------------------- the sessions directory
\* The files of a session directory the SessionManager writes.
USER_ID_TXT == "user_id.txt"
INPUT_TXT == "input.txt"
RESPONSE_MD == "response.md"
\* The image the command renders into the session directory.
RESPONSE_PNG == "response_{uuid}.png"
\* Further images of a session directory, and the marker of the sweep.
PHOTO_JPG == "photo.jpg"
SCAN_JPEG == "scan.jpeg"
CLEANED == ".cleaned"
\* format!("response_{}.png", now): the image save_response_image stores,
\* named after the second it is stored in.
response_png(secs) == "response_" \o ToString(secs) \o ".png"
StoredPngs == {response_png(as_secs(t)) : t \in 0..MaxTicks}
FileNames ==
  {USER_ID_TXT, INPUT_TXT, RESPONSE_MD, RESPONSE_PNG, PHOTO_JPG, SCAN_JPEG, CLEANED} \cup StoredPngs

\* Path::extension() of the file names: the part after the last dot of a
\* name that does not begin with its only dot.
path_extension ==
  [f \in FileNames |->
     CASE f \in {USER_ID_TXT, INPUT_TXT} -> Some("txt")
       [] f = RESPONSE_MD -> Some("md")
       [] f = RESPONSE_PNG -> Some("png")
       [] f \in StoredPngs -> Some("png")
       [] f = PHOTO_JPG -> Some("jpg")
       [] f = SCAN_JPEG -> Some("jpeg")
       [] f = CLEANED -> None]

\* ctx.author().id.to_string(): every process serves the interaction of one
\* Discord user, whose id is its number.
author(p) == <<ToString(p)>>
\* The text the process hands to the SessionManager to be saved: p
\* characters, so that the texts of two processes differ in length.
text_of(p) == [i \in 1..p |-> ToString(p)]

\* A directory that does not exist.  A file is None while it does not exist,
\* else Some(its content); the empty text is the content of a file just
\* created or truncated.
\* modified is the directory's modification time: the time an entry of it
\* was last created or removed.
no_dir == [exists |-> FALSE, files |-> [f \in FileNames |-> None], modified |-> 0]

\* data/sessions after Config::init: no session directory yet.
sessions_dir_init == [id \in SessionIds |-> no_dir]

\* A process that runs no SessionManager operation.
\* todo is the set of directory entries a scan has still to visit, out the
\* SessionInfo records it has collected, days and since the expiry and the
\* time a sweep was started with, original the session whose rendered image
\* save_response_image copies.
no_task ==
  [op |-> "none", at |-> "idle", id |-> 0, file |-> "", arg |-> <<>>, failed |-> FALSE, ret |-> "none",
   todo |-> {}, out |-> <<>>, days |-> 0, since |-> 0, original |-> 0]

\* The command suspended in get_chat_response(..).await: chat_resp and
\* session_id are not set yet.
cmd_init == [pc |-> "calling", markdown |-> <<>>, session_id |-> 0]

\* Mutant: the semaphore is created with one permit too many.
semaphore_new_one_more == ConfiguredLimit + 1

\* Semaphore::new(config.api_concurrency_limit)
semaphore_new == ConfiguredLimit

\* The state after construction over the session directories dirs, at the
\* time t: SessionManager::new keeps what data/sessions holds.
InitWith(dirs, t) ==
  /\ permits = semaphore_new
  /\ waiters = <<>>
  /\ pc = [c \in Calls |-> "idle"]
  /\ permit = [c \in Calls |-> FALSE]
  /\ attempts = [c \in Calls |-> 0]
  /\ byte_stream = [c \in Calls |-> <<>>]
  /\ dec = [c \in Calls |-> decoder_init]
  /\ result = [c \in Calls |-> no_result]
  /\ issued = [c \in Calls |-> 0]
  /\ outcomes = [c \in Calls |-> <<>>]
  /\ slept = [c \in Calls |-> <<>>]
  /\ on_event_log = [c \in Calls |-> <<>>]
  /\ on_event_ret = [c \in Calls |-> <<>>]
  /\ fs = dirs
  /\ task = [p \in Procs |-> no_task]
  /\ allocated = {id \in SessionIds : dirs[id].exists}
  /\ now = t
  /\ cmd = cmd_init
  /\ rendered = <<>>
  /\ replies = <<>>

\* The first start: data/sessions is empty.
Init == InitWith(sessions_dir_init, 0)

\* ----------------------------------------------------- the semaphore
\* Mutant: the permit goes back to the semaphore although a call is queued.
release_to_pool(c, p) ==
  /\ permits' = permits + 1
  /\ waiters' = waiters
  /\ permit' = [permit EXCEPT ![c] = FALSE]
  /\ pc' = [pc EXCEPT ![c] = p]

\* Dropping _permit (OwnedSemaphorePermit): the call c leaves with pc p, and
\* its permit goes to the oldest waiter if there is one, else back to the
\* semaphore.
release(c, p) ==
  IF waiters = <<>>
  THEN /\ permits' = permits + 1
       /\ waiters' = waiters
       /\ permit' = [permit EXCEPT ![c] = FALSE]
       /\ pc' = [pc EXCEPT ![c] = p]
  ELSE /\ permits' = permits
       /\ waiters' = Tail(waiters)
       /\ permit' = [permit EXCEPT ![c] = FALSE, ![Head(waiters)] = TRUE]
       /\ pc' = [pc EXCEPT ![c] = p, ![Head(waiters)] = "granted"]

\* The function is left with c's locals dropped: _permit is the first local
\* and lives to the end of the function body.
leave(c, p) == release(c, p)

\* Mutant: a permit is taken although none is free.
acquire_owned_at_zero(c) ==
  /\ pc[c] = "idle"
  /\ IF permits >= 0
     THEN /\ permits' = permits - 1
          /\ permit' = [permit EXCEPT ![c] = TRUE]
          /\ pc' = [pc EXCEPT ![c] = "admitted"]
          /\ waiters' = waiters
     ELSE /\ waiters' = Append(waiters, c)
          /\ pc' = [pc EXCEPT ![c] = "waiting"]
          /\ UNCHANGED <<permits, permit>>
  /\ UNCHANGED <<attempts, byte_stream, dec, result, observed, store, command>>

\* self.semaphore.clone().acquire_owned().await: granted at once while a
\* permit is free, queued otherwise.
acquire_owned(c) ==
  /\ pc[c] = "idle"
  /\ IF permits > 0
     THEN /\ permits' = permits - 1
          /\ permit' = [permit EXCEPT ![c] = TRUE]
          /\ pc' = [pc EXCEPT ![c] = "admitted"]
          /\ waiters' = waiters
     ELSE /\ waiters' = Append(waiters, c)
          /\ pc' = [pc EXCEPT ![c] = "waiting"]
          /\ UNCHANGED <<permits, permit>>
  /\ UNCHANGED <<attempts, byte_stream, dec, result, observed, store, command>>

\* A waiter that was handed a permit is polled again: acquire_owned returns.
acquire_resumes(c) ==
  /\ pc[c] = "granted"
  /\ pc' = [pc EXCEPT ![c] = "admitted"]
  /\ UNCHANGED <<gate, attempts, byte_stream, dec, result, observed, store, command>>

\* ----------------------------------------------------- the send loop
\* The top of the loop: attempts += 1 and the POST is sent.  Reached from the
\* function's start and from the end of sleep(backoff).
send(c) ==
  /\ pc[c] \in {"admitted", "backoff"}
  /\ attempts' = [attempts EXCEPT ![c] = @ + 1]
  /\ issued' = [issued EXCEPT ![c] = @ + 1]
  /\ pc' = [pc EXCEPT ![c] = "sending"]
  /\ UNCHANGED <<gate, byte_stream, dec, result, outcomes, slept, on_event_log, on_event_ret,
                 store, command>>

\* Mutant: the backoff counts the attempts from 0.
backoff_from_zero(n) == 2 ^ (n - 1)

\* Duration::from_secs(2_u64.pow(attempts))
backoff(n) == 2 ^ n

\* Mutant: the attempts are compared with > instead of >=.
exhausted_off_by_one(n) == n > max_retries

\* if attempts >= max_retries { return Err(..) }
exhausted(n) == n >= max_retries

\* Mutant: the body of the failing response is not captured.
error_text_not_captured(resp) == <<>>

\* resp.text().await.unwrap_or_default()
error_text(resp) == IF resp.readable THEN resp.text ELSE <<>>

\* Mutant: the permit lives only as long as the send loop.
break_resp_drops_permit(c, resp) ==
  /\ byte_stream' = [byte_stream EXCEPT ![c] = resp.stream]
  /\ dec' = [dec EXCEPT ![c] = decoder_init]
  /\ release(c, "streaming")
  /\ UNCHANGED <<result, slept>>

\* Ok(resp) if resp.status().is_success() => break resp
break_resp(c, resp) ==
  /\ byte_stream' = [byte_stream EXCEPT ![c] = resp.stream]
  /\ dec' = [dec EXCEPT ![c] = decoder_init]
  /\ pc' = [pc EXCEPT ![c] = "streaming"]
  /\ UNCHANGED <<gate, result, slept>>

\* Mutant: after the last failed attempt the loop is left with break instead
\* of return, and the decode loop runs without a response.
attempt_failed_breaks(c, err) ==
  IF exhausted(attempts[c])
  THEN /\ pc' = [pc EXCEPT ![c] = "streaming"]
       /\ UNCHANGED <<gate, byte_stream, dec, result, slept>>
  ELSE /\ slept' = [slept EXCEPT ![c] = Append(@, backoff(attempts[c]))]
       /\ pc' = [pc EXCEPT ![c] = "backoff"]
       /\ UNCHANGED <<gate, byte_stream, dec, result>>

\* A failed attempt: the error is returned when the attempts are used up,
\* else the call sleeps and retries.
attempt_failed(c, err) ==
  IF exhausted(attempts[c])
  THEN /\ result' = [result EXCEPT ![c] = err]
       /\ leave(c, "failed")
       /\ UNCHANGED <<byte_stream, dec, slept>>
  ELSE /\ slept' = [slept EXCEPT ![c] = Append(@, backoff(attempts[c]))]
       /\ pc' = [pc EXCEPT ![c] = "backoff"]
       /\ UNCHANGED <<gate, byte_stream, dec, result>>

\* match send_result { .. }: the POST attempt comes to resp.
send_result(c, resp) ==
  /\ pc[c] = "sending"
  /\ outcomes' = [outcomes EXCEPT ![c] = Append(@, resp)]
  /\ CASE resp.kind = "ok" -> break_resp(c, resp)
       [] resp.kind = "status" ->
            attempt_failed(c, remote_error(resp.status, error_text(resp)))
       [] resp.kind = "transport" -> attempt_failed(c, send_error(resp.text))
  /\ UNCHANGED <<attempts, issued, on_event_log, on_event_ret, store, command>>

\* --------------------------------------------------- the decode loop
\* The for loop over the lines of a chunk, up to the next `data: ` line: an
\* `event: ` line sets current_event, any other line is passed over.
\* hit: a `data: ` line was reached (its data is data, the lines after it rest).
RECURSIVE for_line(_, _)
for_line(current_event, ls) ==
  IF ls = <<>>
  THEN [current_event |-> current_event, hit |-> FALSE, data |-> <<>>, rest |-> <<>>]
  ELSE LET line == Head(ls)
           evt == strip_prefix(line, EVENT_PREFIX)
           data == strip_prefix(line, DATA_PREFIX)
       IN IF evt # None THEN for_line(evt[1], Tail(ls))
          ELSE IF data # None
          THEN [current_event |-> current_event, hit |-> TRUE, data |-> data[1], rest |-> Tail(ls)]
          ELSE for_line(current_event, Tail(ls))

\* Mutant: the message is taken only while both buffers are empty.
fold_fallback_shared(d) ==
  IF d.current_event # <<"fastAnswer">> /\ d.current_event # <<"answer">> THEN d
  ELSE LET parsed == serde_json_from_str(d.data)
       IN IF parsed = None THEN d
          ELSE LET resp_val == parsed[1]
                   fast == d.current_event = <<"fastAnswer">>
                   delta == filter_non_blank(resp_val.delta)
                   d1 == IF delta = None THEN d
                         ELSE IF fast THEN [d EXCEPT !.fast_answer = @ \o delta[1]]
                         ELSE [d EXCEPT !.answer_delta = @ \o delta[1]]
                   buffer == d1.fast_answer \o d1.answer_delta
                   full == filter_non_blank(resp_val.message)
                   d2 == IF buffer # <<>> \/ full = None THEN d1
                         ELSE IF fast THEN [d1 EXCEPT !.fast_answer = @ \o full[1]]
                         ELSE [d1 EXCEPT !.answer_delta = @ \o full[1]]
               IN IF resp_val.finish = Some("stop") THEN [d2 EXCEPT !.done = TRUE] ELSE d2

\* Mutant: an event of any other name is handled as an answer event.
fold_any_event(d) ==
  LET parsed == serde_json_from_str(d.data)
  IN IF parsed = None THEN d
     ELSE LET resp_val == parsed[1]
              fast == d.current_event = <<"fastAnswer">>
              delta == filter_non_blank(resp_val.delta)
              d1 == IF delta = None THEN d
                    ELSE IF fast THEN [d EXCEPT !.fast_answer = @ \o delta[1]]
                    ELSE [d EXCEPT !.answer_delta = @ \o delta[1]]
              buffer == IF fast THEN d1.fast_answer ELSE d1.answer_delta
              full == filter_non_blank(resp_val.message)
              d2 == IF buffer # <<>> \/ full = None THEN d1
                    ELSE IF fast THEN [d1 EXCEPT !.fast_answer = @ \o full[1]]
                    ELSE [d1 EXCEPT !.answer_delta = @ \o full[1]]
          IN IF resp_val.finish = Some("stop") THEN [d2 EXCEPT !.done = TRUE] ELSE d2

\* The handling of a fastAnswer or answer event after its callback returned:
\* the non-blank delta is appended to the event's buffer, a buffer still empty
\* takes the non-blank message, finish_reason "stop" sets done.
fold(d) ==
  IF d.current_event # <<"fastAnswer">> /\ d.current_event # <<"answer">> THEN d
  ELSE LET parsed == serde_json_from_str(d.data)
       IN IF parsed = None THEN d
          ELSE LET resp_val == parsed[1]
                   fast == d.current_event = <<"fastAnswer">>
                   delta == filter_non_blank(resp_val.delta)
                   d1 == IF delta = None THEN d
                         ELSE IF fast THEN [d EXCEPT !.fast_answer = @ \o delta[1]]
                         ELSE [d EXCEPT !.answer_delta = @ \o delta[1]]
                   buffer == IF fast THEN d1.fast_answer ELSE d1.answer_delta
                   full == filter_non_blank(resp_val.message)
                   d2 == IF buffer # <<>> \/ full = None THEN d1
                         ELSE IF fast THEN [d1 EXCEPT !.fast_answer = @ \o full[1]]
                         ELSE [d1 EXCEPT !.answer_delta = @ \o full[1]]
               IN IF resp_val.finish = Some("stop") THEN [d2 EXCEPT !.done = TRUE] ELSE d2

\* The function returns Ok(ChatResponse) after the decode loop.
return_ok(c, d) ==
  /\ result' = [result EXCEPT ![c] = chat_response(d)]
  /\ dec' = [dec EXCEPT ![c] = d]
  /\ leave(c, "completed")

\* Mutant: an error of the decode loop sends the request again.
return_err_retries(c, err) ==
  /\ pc' = [pc EXCEPT ![c] = "backoff"]
  /\ UNCHANGED <<gate, dec, result>>

\* Mutant: the permit is released on success only.
return_err_keeps_permit(c, err) ==
  /\ result' = [result EXCEPT ![c] = err]
  /\ pc' = [pc EXCEPT ![c] = "failed"]
  /\ UNCHANGED <<gate, dec>>

\* The function returns Err from the decode loop (the ? operator).
return_err(c, err) ==
  /\ result' = [result EXCEPT ![c] = err]
  /\ leave(c, "failed")
  /\ UNCHANGED dec

\* Mutant: the event is put at the front of the log.
events_push_front(d, current_event, data) ==
  [d EXCEPT !.events = <<<<current_event, data>>>> \o @]

\* events.push((current_event.clone(), data.to_string()))
events_push(d, current_event, data) ==
  [d EXCEPT !.events = Append(@, <<current_event, data>>)]

\* Mutant: the event name is forgotten whenever the for loop is entered.
for_lines_forgets_event(c, d) ==
  LET r == for_line(<<>>, d.rest)
      d1 == [d EXCEPT !.current_event = r.current_event, !.rest = r.rest, !.data = r.data]
  IN IF r.hit
     THEN /\ dec' = [dec EXCEPT ![c] = events_push(d1, r.current_event, r.data)]
          /\ pc' = [pc EXCEPT ![c] = "logged"]
          /\ UNCHANGED <<gate, result>>
     ELSE IF d1.done
     THEN return_ok(c, d1)
     ELSE /\ dec' = [dec EXCEPT ![c] = d1]
          /\ pc' = [pc EXCEPT ![c] = "streaming"]
          /\ UNCHANGED <<gate, result>>

\* The for loop runs on from the lines d.rest: to the next `data: ` line, whose
\* event is logged, or to the end of the chunk, where done ends the while loop
\* and the next chunk is awaited otherwise.
for_lines(c, d) ==
  LET r == for_line(d.current_event, d.rest)
      d1 == [d EXCEPT !.current_event = r.current_event, !.rest = r.rest, !.data = r.data]
  IN IF r.hit
     THEN /\ dec' = [dec EXCEPT ![c] = events_push(d1, r.current_event, r.data)]
          /\ pc' = [pc EXCEPT ![c] = "logged"]
          /\ UNCHANGED <<gate, result>>
     ELSE IF d1.done
     THEN return_ok(c, d1)
     ELSE /\ dec' = [dec EXCEPT ![c] = d1]
          /\ pc' = [pc EXCEPT ![c] = "streaming"]
          /\ UNCHANGED <<gate, result>>

\* Mutant: the end of the stream is taken for a read error.
next_chunk_end_is_error(c) ==
  /\ pc[c] = "streaming"
  /\ IF byte_stream[c] = <<>>
     THEN return_err(c, stream_error) /\ UNCHANGED byte_stream
     ELSE /\ byte_stream' = [byte_stream EXCEPT ![c] = Tail(@)]
          /\ IF Head(byte_stream[c]).ok
             THEN \E ls \in {lines(Head(byte_stream[c]).text)} :
                  for_lines(c, [dec[c] EXCEPT !.rest = ls])
             ELSE return_err(c, stream_error)
  /\ UNCHANGED <<attempts, observed, store, command>>

\* Mutant: the end of the stream does not end the while loop.
next_chunk_awaits_at_end(c) ==
  /\ pc[c] = "streaming"
  /\ byte_stream[c] # <<>>
  /\ byte_stream' = [byte_stream EXCEPT ![c] = Tail(@)]
  /\ IF Head(byte_stream[c]).ok
     THEN \E ls \in {lines(Head(byte_stream[c]).text)} :
                  for_lines(c, [dec[c] EXCEPT !.rest = ls])
     ELSE return_err(c, stream_error)
  /\ UNCHANGED <<attempts, observed, store, command>>

\* byte_stream.next().await returns: the end of the stream, a read error, or a
\* chunk whose lines the for loop starts on.
next_chunk(c) ==
  /\ pc[c] = "streaming"
  /\ IF byte_stream[c] = <<>>
     THEN return_ok(c, dec[c]) /\ UNCHANGED byte_stream
     ELSE /\ byte_stream' = [byte_stream EXCEPT ![c] = Tail(@)]
          /\ IF Head(byte_stream[c]).ok
             THEN \E ls \in {lines(Head(byte_stream[c]).text)} :
                  for_lines(c, [dec[c] EXCEPT !.rest = ls])
             ELSE return_err(c, stream_error)
  /\ UNCHANGED <<attempts, observed, store, command>>

\* on_event(&current_event, data) is called for the event just logged.
on_event(c) ==
  /\ pc[c] = "logged"
  /\ on_event_log' = [on_event_log EXCEPT ![c] = Append(@, <<dec[c].current_event, dec[c].data>>)]
  /\ pc' = [pc EXCEPT ![c] = "callback"]
  /\ UNCHANGED <<gate, attempts, byte_stream, dec, result, issued, outcomes, slept,
                 on_event_ret, store, command>>

\* Mutant: an error of the callback is ignored.
on_event_returns_ignores_err(c, ok) ==
  /\ pc[c] = "callback"
  /\ on_event_ret' = [on_event_ret EXCEPT ![c] = Append(@, ok)]
  /\ for_lines(c, fold(dec[c]))
  /\ UNCHANGED <<attempts, byte_stream, issued, outcomes, slept, on_event_log, store, command>>

\* on_event(..).await returns: Err leaves the function, Ok lets the event be
\* handled and the for loop run on.
on_event_returns(c, ok) ==
  /\ pc[c] = "callback"
  /\ on_event_ret' = [on_event_ret EXCEPT ![c] = Append(@, ok)]
  /\ IF ok THEN for_lines(c, fold(dec[c])) ELSE return_err(c, callback_error)
  /\ UNCHANGED <<attempts, byte_stream, issued, outcomes, slept, on_event_log, store, command>>

\* ------------------------------------------------------ cancellation
\* The places where the call is suspended in an .await.
Suspended == {"waiting", "granted", "sending", "backoff", "streaming", "callback"}

\* The caller drops the future of a suspended call: a queued acquire leaves
\* the queue, any other call drops its locals, the permit among them.
drop_future(c) ==
  /\ pc[c] \in Suspended
  /\ IF pc[c] = "waiting"
     THEN /\ waiters' = SelectSeq(waiters, LAMBDA w : w # c)
          /\ pc' = [pc EXCEPT ![c] = "dropped"]
          /\ UNCHANGED <<permits, permit>>
     ELSE leave(c, "dropped")
  /\ UNCHANGED <<attempts, byte_stream, dec, result, observed, store, command>>

\* A command calls get_chat_response once more: the call that ended starts
\* from the function's entry with fresh locals.
get_chat_response_again(c) ==
  /\ pc[c] \in {"completed", "failed", "dropped"}
  /\ pc' = [pc EXCEPT ![c] = "idle"]
  /\ attempts' = [attempts EXCEPT ![c] = 0]
  /\ byte_stream' = [byte_stream EXCEPT ![c] = <<>>]
  /\ dec' = [dec EXCEPT ![c] = decoder_init]
  /\ result' = [result EXCEPT ![c] = no_result]
  /\ issued' = [issued EXCEPT ![c] = 0]
  /\ outcomes' = [outcomes EXCEPT ![c] = <<>>]
  /\ slept' = [slept EXCEPT ![c] = <<>>]
  /\ on_event_log' = [on_event_log EXCEPT ![c] = <<>>]
  /\ on_event_ret' = [on_event_ret EXCEPT ![c] = <<>>]
  /\ UNCHANGED <<permits, waiters, permit, store, command>>

\* ---------------------------------------------------------- strings
\* A string is the sequence of its characters.  A character is written as
\* itself when it is ASCII, and as its code point ("U+4E2D") otherwise.

\* char::is_whitespace, for the characters of the model.
is_whitespace(c) == c \in {" ", "\n"}

\* char::len_utf8: the number of bytes of the character in a String.
len_utf8(c) ==
  CASE c \in {"U+00E9"} -> 2
    [] c \in {"U+4E2D", "U+65E0", "U+6CD5", "U+8BFB", "U+53D6", "U+8F93", "U+5165"} -> 3
    [] OTHER -> 1

\* str::len: the length of the string in bytes.
RECURSIVE str_len(_)
str_len(str) == IF str = <<>> THEN 0 ELSE len_utf8(Head(str)) + str_len(Tail(str))

\* str::is_char_boundary: byte index n is the start of a character or the
\* end of the string.
is_char_boundary(str, n) == \E k \in 0..Len(str) : str_len(SubSeq(str, 1, k)) = n

\* &str[..n] for n on a character boundary: the characters that lie in the
\* first n bytes.  (Off a boundary the slice panics.)
slice_to(str, n) ==
  SubSeq(str, 1, CHOOSE k \in 0..Len(str) : str_len(SubSeq(str, 1, k)) = n)

RECURSIVE trim_start(_)
trim_start(str) ==
  IF str # <<>> /\ is_whitespace(Head(str)) THEN trim_start(Tail(str)) ELSE str

RECURSIVE trim_end(_)
trim_end(str) ==
  IF str # <<>> /\ is_whitespace(str[Len(str)]) THEN trim_end(SubSeq(str, 1, Len(str) - 1)) ELSE str

\* str::trim: the string without its leading and trailing whitespace.
trim(str) == trim_end(trim_start(str))

\* ----------------------------------------------------- file system
\* What the file system calls do to a directory at the time t.

\* fs::create_dir_all: the directory is made unless it exists.
mkdir(dir, t) == IF dir.exists THEN dir ELSE [dir EXCEPT !.exists = TRUE, !.modified = t]

\* File::create: the file f is created empty, or truncated when it exists;
\* a new entry changes the directory's modification time.
open_truncate(dir, f, t) ==
  [dir EXCEPT !.files[f] = Some(<<>>),
              !.modified = IF dir.files[f] = None THEN t ELSE @]

\* write_all on a file just opened: the text goes over the content from the
\* start of the file, and what the file holds beyond the text stays.
pwrite(old, text) == text \o SubSeq(old, Len(text) + 1, Len(old))

\* fs::remove_file: the entry is removed from the directory.
remove_file(dir, f, t) == [dir EXCEPT !.files[f] = None, !.modified = t]

\* ---------------------------------------------- the session manager
\* A SessionManager operation runs as a task of a process: op is the function,
\* at the file system call it is about to make, id the session, file and arg
\* the file it writes and the text for it, failed whether a file system call
\* of the operation failed, ret what the function returned.
begin(op, at, id, file, arg) ==
  [no_task EXCEPT !.op = op, !.at = at, !.id = id, !.file = file, !.arg = arg]

\* The process runs no operation.
Idle(p) == task[p].at \in {"idle", "returned"}

\* Uuid::new_v4(): an id not handed out before (the ids are numbered in the
\* order they are handed out).
new_v4 == CHOOSE id \in SessionIds \ allocated : \A other \in SessionIds \ allocated : id <= other

\* The session ids the callers hold: those create_session has returned.
returned_ids ==
  {id \in allocated :
     \A p \in Procs : task[p].id = id => task[p].op # "create_session" \/ task[p].at = "returned"}

\* create_session is entered: the id is drawn and the directory is next.
create_session_begins(p, user_id) ==
  /\ Idle(p)
  /\ allocated # SessionIds
  /\ allocated' = allocated \cup {new_v4}
  /\ task' = [task EXCEPT ![p] = begin("create_session", "create_dir_all", new_v4, USER_ID_TXT, user_id)]
  /\ UNCHANGED <<fs, now>>

\* pub fn create_session(&self, user_id: &str) -> String
create_session(p, user_id) ==
  /\ create_session_begins(p, user_id)
  /\ UNCHANGED <<client, command>>

\* if let Err(e) = fs::create_dir_all(&session_dir) { error!(..) }: the
\* directory is made, or the failure is logged; the function goes on.
create_dir_all(p, ok) ==
  /\ task[p].at = "create_dir_all"
  /\ IF ok
     THEN /\ fs' = [fs EXCEPT ![task[p].id] = mkdir(@, now)]
          /\ task' = [task EXCEPT ![p].at = "create"]
     ELSE /\ fs' = fs
          /\ task' = [task EXCEPT ![p].at = "create", ![p].failed = TRUE]
  /\ UNCHANGED <<allocated, now, client, command>>

\* save_user_input / save_response_markdown are entered: the write is handed
\* to spawn_blocking.
save_begins(p, op, session_id, file, text) ==
  /\ Idle(p)
  /\ task' = [task EXCEPT ![p] = begin(op, "create", session_id, file, text)]
  /\ UNCHANGED <<fs, allocated, now>>

\* pub async fn save_user_input(&self, session_id: &str, input: &str)
save_user_input(p, session_id, input) ==
  /\ save_begins(p, "save_user_input", session_id, INPUT_TXT, input)
  /\ UNCHANGED <<client, command>>

\* pub async fn save_response_markdown(&self, session_id: &str, markdown: &str)
save_response_markdown(p, session_id, markdown) ==
  /\ save_begins(p, "save_response_markdown", session_id, RESPONSE_MD, markdown)
  /\ UNCHANGED <<client, command>>

\* The function returns and its locals are dropped; what is left is what it
\* returned (ret, and the session id for create_session) and whether one of
\* its file system calls had failed.  create_session returns session_id
\* whatever the file system calls came to (their errors are logged); save_*
\* return Ok(()) when the blocking task was joined, whatever its fs::write
\* returned: .context(..)? looks at the JoinError alone.
returns(t) ==
  [no_task EXCEPT !.at = "returned", !.ret = "ok", !.failed = t.failed,
                  !.op = t.op, !.id = IF t.op = "create_session" THEN t.id ELSE 0]

\* fs::write, first half: the file is created or truncated.  It fails when
\* the directory does not exist or the file system refuses.
file_create(p, ok) ==
  /\ task[p].at = "create"
  /\ IF fs[task[p].id].exists /\ ok
     THEN /\ fs' = [fs EXCEPT ![task[p].id] = open_truncate(@, task[p].file, now)]
          /\ task' = [task EXCEPT ![p].at = "write_all"]
     ELSE /\ fs' = fs
          /\ task' = [task EXCEPT ![p] = returns([task[p] EXCEPT !.failed = TRUE])]
  /\ UNCHANGED <<allocated, now, client, command>>

\* fs::write, second half: the text is written from the start of the file,
\* or the write fails and leaves the file as it is.
write_all(p, ok) ==
  /\ task[p].at = "write_all"
  /\ IF ok
     THEN /\ fs' = [fs EXCEPT ![task[p].id].files[task[p].file] = Some(pwrite(@[1], task[p].arg))]
          /\ task' = [task EXCEPT ![p] = returns(task[p])]
     ELSE /\ fs' = fs
          /\ task' = [task EXCEPT ![p] = returns([task[p] EXCEPT !.failed = TRUE])]
  /\ UNCHANGED <<allocated, now, client, command>>

\* The blocking task is cancelled before it ran (the runtime shuts down):
\* .await yields a JoinError and the function returns Err.
spawn_blocking_cancelled(p) ==
  /\ task[p].at = "create"
  /\ task[p].op \in {"save_user_input", "save_response_markdown"}
  /\ task' = [task EXCEPT ![p] = [no_task EXCEPT !.at = "returned", !.ret = "err", !.op = task[p].op]]
  /\ UNCHANGED <<fs, allocated, now, client, command>>

\* pub async fn save_response_image(&self, session_id: &str,
\* original_image_path: &Path) is entered: the copy is handed to
\* spawn_blocking.  The image to copy is the one rendered into the directory
\* of the session original.
save_response_image(p, session_id, original) ==
  /\ Idle(p)
  /\ task' = [task EXCEPT ![p] =
       [begin("save_response_image", "copy", session_id, "", <<>>) EXCEPT !.original = original]]
  /\ UNCHANGED <<fs, allocated, now, client, command>>

\* The blocking task runs: the file name is made of the seconds of
\* SystemTime::now(), and fs::copy(&original, &target_path) creates or
\* truncates the target and fills it with the content of the original.  The
\* copy fails when the original or the session directory does not exist or
\* the file system refuses; the function returns Ok(target_path) or the
\* error of the copy.
fs_copy(p, ok) ==
  /\ task[p].at = "copy"
  /\ LET filename == response_png(as_secs(now))
         original == fs[task[p].original].files[RESPONSE_PNG]
     IN IF ok /\ fs[task[p].id].exists /\ original # None
        THEN /\ fs' = [fs EXCEPT ![task[p].id] =
                         [open_truncate(@, filename, now) EXCEPT !.files[filename] = original]]
             /\ task' = [task EXCEPT ![p] =
                  [no_task EXCEPT !.at = "returned", !.ret = "ok", !.op = task[p].op,
                                  !.id = task[p].id, !.file = filename]]
        ELSE /\ fs' = fs
             /\ task' = [task EXCEPT ![p] =
                  [no_task EXCEPT !.at = "returned", !.ret = "err", !.op = task[p].op,
                                  !.failed = TRUE]]
  /\ UNCHANGED <<allocated, now, client, command>>

\* ------------------------------------------------ listing the sessions
\* The number of bytes of input.txt that get_session_info shows.
preview_bytes == 30

\* String::from("..") of get_session_info when input.txt cannot be read.
UNREADABLE == <<"U+65E0", "U+6CD5", "U+8BFB", "U+53D6", "U+8F93", "U+5165">>

\* &content[..30] panics: the content is longer than 30 bytes and byte 30 is
\* inside a character.
preview_panics(content) ==
  str_len(content) > preview_bytes /\ ~is_char_boundary(content, preview_bytes)

\* input_preview of get_session_info for what read_to_string gave: the
\* content when it has at most 30 bytes, else its first 30 bytes and "...".
input_preview(read) ==
  IF read = None THEN UNREADABLE
  ELSE IF str_len(read[1]) > preview_bytes
       THEN slice_to(read[1], preview_bytes) \o <<".", ".", ".">>
       ELSE read[1]

\* name_str.ends_with(".png") || .. (".jpg") || .. (".jpeg")
ends_with_image(f) == f \in {RESPONSE_PNG, PHOTO_JPG, SCAN_JPEG} \cup StoredPngs

\* The entries of a directory that are files.
entries(dir) == {f \in FileNames : dir.files[f] # None}

\* get_session_info: the SessionInfo of the session id.  err names the file
\* system call of it that fails, if one does: without input.txt, or with a
\* failing read of it, the preview is the fixed text; without the metadata
\* the modification time is the current time.
get_session_info(id, err) ==
  [id |-> id,
   input_preview |-> input_preview(IF err = "read input" THEN None ELSE fs[id].files[INPUT_TXT]),
   last_modified |-> IF err = "metadata" THEN now ELSE fs[id].modified,
   images |-> Cardinality({f \in entries(fs[id]) : ends_with_image(f)})]

\* Mutant: the sessions in the order the directory was read.
sort_by_keeps_order(sessions) == sessions

\* sessions.sort_by(|a, b| b.last_modified.cmp(&a.last_modified)): a stable
\* sort, latest modification first.
RECURSIVE sort_by(_)
sort_by(sessions) ==
  IF sessions = <<>> THEN <<>>
  ELSE LET n == Len(sessions)
           sorted == sort_by(SubSeq(sessions, 1, n - 1))
           x == sessions[n]
           k == Cardinality({i \in 1..Len(sorted) : sorted[i].last_modified >= x.last_modified})
       IN SubSeq(sorted, 1, k) \o <<x>> \o SubSeq(sorted, k + 1, Len(sorted))

\* pub fn get_user_sessions(&self, user_id: &str) -> Vec<SessionInfo>
\* fs::read_dir(&self.sessions_dir): the session directories to visit, none
\* if the directory cannot be read.
get_user_sessions(p, user_id, ok) ==
  /\ Idle(p)
  /\ task' = [task EXCEPT ![p] =
       [no_task EXCEPT !.op = "get_user_sessions", !.at = "entries", !.arg = user_id,
                       !.todo = IF ok THEN {id \in SessionIds : fs[id].exists} ELSE {},
                       !.failed = ~ok]]
  /\ UNCHANGED <<fs, allocated, now, client, command>>

\* One entry of the loop, in the order read_dir yields them: the session is
\* collected if user_id.txt can be read and, trimmed, equals user_id.
\* Collecting it panics when the preview is cut inside a character.
get_user_sessions_entry(p, id, err) ==
  /\ task[p].op = "get_user_sessions"
  /\ task[p].at = "entries"
  /\ id \in task[p].todo
  /\ LET stored == IF err = "read user_id" THEN None ELSE fs[id].files[USER_ID_TXT]
         listed == stored # None /\ trim(stored[1]) = task[p].arg
         input == fs[id].files[INPUT_TXT]
     IN /\ err = "read user_id" => fs[id].files[USER_ID_TXT] # None
        /\ err = "read input" => listed /\ input # None
        /\ err = "metadata" => listed
        /\ IF listed /\ err # "read input" /\ input # None /\ preview_panics(input[1])
           THEN task' = [task EXCEPT ![p] =
                  [no_task EXCEPT !.op = "get_user_sessions", !.at = "returned", !.ret = "panic",
                                  !.arg = task[p].arg, !.failed = task[p].failed]]
           ELSE task' = [task EXCEPT ![p].todo = @ \ {id},
                                     ![p].failed = @ \/ err # "none",
                                     ![p].out = IF listed THEN Append(@, get_session_info(id, err)) ELSE @]
  /\ UNCHANGED <<fs, allocated, now, client, command>>

\* The loop is over: the sessions are sorted and returned.
get_user_sessions_returns(p) ==
  /\ task[p].op = "get_user_sessions"
  /\ task[p].at = "entries"
  /\ task[p].todo = {}
  /\ task' = [task EXCEPT ![p] =
       [no_task EXCEPT !.op = "get_user_sessions", !.at = "returned", !.ret = "ok",
                       !.arg = task[p].arg, !.failed = task[p].failed,
                       !.out = sort_by(task[p].out)]]
  /\ UNCHANGED <<fs, allocated, now, client, command>>

\* ------------------------------------------------------- the sweep
\* let seconds_in_day = 24 * 60 * 60;
seconds_in_day == 24 * 60 * 60

\* The ticks of a day.
Day == seconds_in_day * TicksPerSecond

\* Mutant: a session is expired from the expiry on.
expired_at_expiry(dir, since, expiry_days) ==
  /\ dir.modified <= since
  /\ as_secs(since - dir.modified) >= expiry_days * seconds_in_day

\* now.duration_since(modified) is Ok(duration) and duration.as_secs() >
\* expiry_seconds, for the time since the sweep took as now.
expired(dir, since, expiry_days) ==
  /\ dir.modified <= since
  /\ as_secs(since - dir.modified) > expiry_days * seconds_in_day

\* The files cleanup_session_images removes: ext_str == "png" || ext_str ==
\* "jpg" || ext_str == "jpeg".
images_of(dir) ==
  {f \in entries(dir) : path_extension[f] \in {Some("png"), Some("jpg"), Some("jpeg")}}

\* format!(.., timestamp): the text of the marker written at the time t.
cleaned_text(t) == <<"cleaned at ", ToString(t)>>

\* The file system calls of a sweep's visit of one entry that may fail:
\* entry.metadata(), the fs::write of the marker, or the fs::remove_file of
\* one image.
SweepErrors == {"none", "metadata", "write"} \cup {f \in FileNames : ends_with_image(f)}

\* Mutant: the loop over the images ends after the first removal.
cleanup_session_images_removes_one(dir, t, err) ==
  IF ~dir.exists THEN dir
  ELSE LET removed == IF images_of(dir) \ {err} = {} THEN {}
                      ELSE {CHOOSE f \in images_of(dir) \ {err} : TRUE}
           swept == [dir EXCEPT !.files = [f \in FileNames |-> IF f \in removed THEN None ELSE @[f]],
                                !.modified = IF removed = {} THEN @ ELSE t]
       IN [open_truncate(swept, CLEANED, t) EXCEPT !.files[CLEANED] = Some(cleaned_text(t))]

\* pub fn cleanup_session_images(&self, session_id: &str) -> Result<usize>
\* at the time t: every image whose removal does not fail is removed, and
\* then the marker is written unless that fails.
cleanup_session_images(dir, t, err) ==
  IF ~dir.exists THEN dir
  ELSE LET removed == images_of(dir) \ {err}
           swept == [dir EXCEPT !.files = [f \in FileNames |-> IF f \in removed THEN None ELSE @[f]],
                                !.modified = IF removed = {} THEN @ ELSE t]
       IN IF err = "write" THEN swept
          ELSE [open_truncate(swept, CLEANED, t) EXCEPT !.files[CLEANED] = Some(cleaned_text(t))]

\* Mutant: only an expired session is purged.
purged_expired_only(dir, since, expiry_days, err) == err # "metadata" /\ expired(dir, since, expiry_days)

\* The sweep purges the entry: user_id.txt does not exist in it, or its
\* metadata can be read and say that it is expired.
purged(dir, since, expiry_days, err) ==
  \/ dir.files[USER_ID_TXT] = None
  \/ err # "metadata" /\ expired(dir, since, expiry_days)

\* pub async fn periodic_cleanup(&self, expiry_days: u64)
\* fs::read_dir(&self.sessions_dir) and SystemTime::now(): the entries to
\* visit and the time the ages are measured from; nothing is visited if the
\* directory cannot be read.
periodic_cleanup(p, expiry_days, ok) ==
  /\ Idle(p)
  /\ task' = [task EXCEPT ![p] =
       [no_task EXCEPT !.op = "periodic_cleanup", !.at = "entries", !.days = expiry_days,
                       !.since = now,
                       !.todo = IF ok THEN {id \in SessionIds : fs[id].exists} ELSE {},
                       !.failed = ~ok]]
  /\ UNCHANGED <<fs, allocated, now, client, command>>

\* One entry of the loop, in the order read_dir yields them.  err is the
\* file system call of the visit that fails, among those it makes.
periodic_cleanup_entry(p, id, err) ==
  /\ task[p].op = "periodic_cleanup"
  /\ task[p].at = "entries"
  /\ id \in task[p].todo
  /\ LET dir == fs[id]
         purge == purged(dir, task[p].since, task[p].days, err)
     IN /\ err = "metadata" => dir.files[USER_ID_TXT] # None
        /\ err = "write" => purge
        /\ ends_with_image(err) => purge /\ err \in images_of(dir)
        /\ fs' = IF purge THEN [fs EXCEPT ![id] = cleanup_session_images(dir, now, err)] ELSE fs
        /\ task' = [task EXCEPT ![p].todo = @ \ {id}, ![p].failed = @ \/ err # "none"]
  /\ UNCHANGED <<allocated, now, client, command>>

\* The loop is over: the function returns ().
periodic_cleanup_returns(p) ==
  /\ task[p].op = "periodic_cleanup"
  /\ task[p].at = "entries"
  /\ task[p].todo = {}
  /\ task' = [task EXCEPT ![p] =
       [no_task EXCEPT !.op = "periodic_cleanup", !.at = "returned", !.ret = "ok",
                       !.days = task[p].days, !.since = task[p].since, !.failed = task[p].failed]]
  /\ UNCHANGED <<fs, allocated, now, client, command>>

\* Time passes.
advance(delta) ==
  /\ now' = now + delta
  /\ UNCHANGED <<fs, task, allocated, client, command>>

\* ------------------------------------------------------ the command
\* qa_reply from its call of get_chat_response on.  The command is served by
\* process 1 for the user author(1); its call is call 1.

\* let chat_resp = api_client.get_chat_response(..).await?; then
\* create_session(&user_id) is entered.
qa_reply_creates_session ==
  /\ cmd.pc = "calling"
  /\ pc[1] \in {"completed", "failed"}
  /\ IF pc[1] = "failed"
     THEN /\ cmd' = [cmd EXCEPT !.pc = "error"]
          /\ UNCHANGED store
     ELSE /\ cmd' = [cmd EXCEPT !.pc = "create_session", !.markdown = result[1].content]
          /\ create_session_begins(1, author(1))
  /\ UNCHANGED <<client, rendered, replies>>

\* let session_id = ..create_session(&user_id)?; then
\* save_user_input(&session_id, &question_text) is entered.
qa_reply_saves_input ==
  /\ cmd.pc = "create_session"
  /\ task[1].at = "returned"
  /\ cmd' = [cmd EXCEPT !.pc = "save_user_input", !.session_id = task[1].id]
  /\ save_begins(1, "save_user_input", task[1].id, INPUT_TXT, text_of(1))
  /\ UNCHANGED <<client, rendered, replies>>

\* save_user_input(..).await?; then
\* save_response_markdown(&session_id, &chat_resp.content) is entered.
qa_reply_saves_markdown ==
  /\ cmd.pc = "save_user_input"
  /\ task[1].at = "returned"
  /\ IF task[1].ret = "err"
     THEN /\ cmd' = [cmd EXCEPT !.pc = "error"]
          /\ UNCHANGED store
     ELSE /\ cmd' = [cmd EXCEPT !.pc = "save_response_markdown"]
          /\ save_begins(1, "save_response_markdown", cmd.session_id, RESPONSE_MD, cmd.markdown)
  /\ UNCHANGED <<client, rendered, replies>>

\* ImageGenerator::create_image_from_markdown(markdown, output_path) on the
\* directory dir: the parent directory is made when it is missing and the
\* image is rendered into it; either may fail.
create_image_from_markdown(dir, markdown, outcome) ==
  CASE outcome = "ok" ->
         [open_truncate(mkdir(dir, now), RESPONSE_PNG, now) EXCEPT !.files[RESPONSE_PNG] = Some(markdown)]
    [] outcome = "render failed" -> mkdir(dir, now)
    [] outcome = "create_dir_all failed" -> dir

\* save_response_markdown(..).await?; then the renderer is called with
\* chat_resp.content: create_image_from_markdown(&chat_resp.content, &image_path)?
qa_reply_renders(outcome) ==
  /\ cmd.pc = "save_response_markdown"
  /\ task[1].at = "returned"
  /\ IF task[1].ret = "err"
     THEN /\ cmd' = [cmd EXCEPT !.pc = "error"]
          /\ UNCHANGED <<fs, rendered>>
     ELSE /\ outcome = "create_dir_all failed" => ~fs[cmd.session_id].exists
          /\ rendered' = Append(rendered, cmd.markdown)
          /\ fs' = [fs EXCEPT ![cmd.session_id] = create_image_from_markdown(@, cmd.markdown, outcome)]
          /\ cmd' = [cmd EXCEPT !.pc = IF outcome = "ok" THEN "rendered" ELSE "error"]
  /\ UNCHANGED <<client, task, allocated, now, replies>>

\* initial_msg.delete(ctx).await?; ctx.send(|reply| .. attachment(image_path)).await?
qa_reply_replies(ok) ==
  /\ cmd.pc = "rendered"
  /\ IF ok
     THEN /\ replies' = Append(replies, cmd.markdown)
          /\ cmd' = [cmd EXCEPT !.pc = "done"]
     ELSE /\ replies' = replies
          /\ cmd' = [cmd EXCEPT !.pc = "error"]
  /\ UNCHANGED <<client, store, rendered>>

\* --------------------------------------------------- specification
\* Every call runs against the shared semaphore.
Next ==
  \E c \in Calls :
    \/ acquire_owned(c)
    \/ acquire_resumes(c)
    \/ send(c)
    \/ \E resp \in GateResponses : send_result(c, resp)
    \/ next_chunk(c)
    \/ on_event(c)
    \/ \E ok \in BOOLEAN : on_event_returns(c, ok)
    \/ drop_future(c)

Spec == Init /\ [][Next]_vars

\* One call alone (no other call is made, so it never queues), against every
\* response: the send loop and the decode loop read and write only the call's
\* own locals.
NextCall ==
  \/ acquire_owned(1)
  \/ send(1)
  \/ \E resp \in Responses : send_result(1, resp)
  \/ next_chunk(1)
  \/ on_event(1)
  \/ \E ok \in BOOLEAN : on_event_returns(1, ok)
  \/ drop_future(1)

SpecCall == Init /\ [][NextCall]_vars

\* Calls keep arriving at the shared semaphore: a call that ended is made
\* again.  The runtime polls a task that was woken: a waiter that was handed
\* a permit resumes.
NextArrivals ==
  \E c \in Calls :
    \/ acquire_owned(c)
    \/ acquire_resumes(c)
    \/ send(c)
    \/ \E resp \in GateResponses : send_result(c, resp)
    \/ next_chunk(c)
    \/ on_event(c)
    \/ \E ok \in BOOLEAN : on_event_returns(c, ok)
    \/ drop_future(c)
    \/ get_chat_response_again(c)

SpecArrivals ==
  /\ Init
  /\ [][NextArrivals]_vars
  /\ \A c \in Calls : WF_vars(acquire_resumes(c))

\* One call alone, run to its end.  The runtime polls the call: the sleep of a
\* backoff elapses and the next POST is sent, and the callback is called for
\* an event that was logged.  Each POST attempt returns, the response stream
\* yields its next item or its end, and each callback invocation returns.
SpecCallFair ==
  /\ Init
  /\ [][NextCall]_vars
  /\ WF_vars(send(1))
  /\ WF_vars(on_event(1))
  /\ WF_vars(\E resp \in Responses : send_result(1, resp))
  /\ WF_vars(next_chunk(1))
  /\ WF_vars(\E ok \in BOOLEAN : on_event_returns(1, ok))

\* The bytes of a response of two answer frames, the second ending the
\* answer.
TwoFrames == frame("answer", "jHi") \o frame("answer", "jThereStop")

\* The ways the transport may deliver the bytes: in one chunk, or cut in two
\* at any place.
Chunkings(bytes) ==
  {<<chunk(bytes)>>}
  \cup {<<chunk(SubSeq(bytes, 1, k)), chunk(SubSeq(bytes, k + 1, Len(bytes)))>> :
          k \in 1..(Len(bytes) - 1)}

\* The calls share the gate and get the same bytes, cut by the transport as
\* it happens.
NextChunks ==
  \E c \in Calls :
    \/ acquire_owned(c)
    \/ acquire_resumes(c)
    \/ send(c)
    \/ \E b \in Chunkings(TwoFrames) : send_result(c, ok_response(b))
    \/ next_chunk(c)
    \/ on_event(c)
    \/ \E ok \in BOOLEAN : on_event_returns(c, ok)

SpecChunks == Init /\ [][NextChunks]_vars

\* The tasks that use the SessionManager, each running one operation after
\* another on the sessions created so far.
NextStore ==
  \E p \in Procs :
    \/ create_session(p, author(p))
    \/ \E ok \in BOOLEAN : create_dir_all(p, ok)
    \/ \E id \in returned_ids : save_user_input(p, id, text_of(p))
    \/ \E id \in returned_ids : save_response_markdown(p, id, text_of(p))
    \/ \E ok \in BOOLEAN : file_create(p, ok)
    \/ \E ok \in BOOLEAN : write_all(p, ok)
    \/ spawn_blocking_cancelled(p)

SpecStore == Init /\ [][NextStore]_vars

\* The same callers awaiting each operation before the next one begins: at
\* most one operation of the session manager is in progress.
NextSequential ==
  \E p \in Procs :
    /\ \A q \in Procs \ {p} : Idle(q)
    /\ \/ create_session(p, author(p))
       \/ \E ok \in BOOLEAN : create_dir_all(p, ok)
       \/ \E id \in returned_ids : save_user_input(p, id, text_of(p))
       \/ \E id \in returned_ids : save_response_markdown(p, id, text_of(p))
       \/ \E ok \in BOOLEAN : file_create(p, ok)
       \/ \E ok \in BOOLEAN : write_all(p, ok)
       \/ spawn_blocking_cancelled(p)

SpecSequential == Init /\ [][NextSequential]_vars

\* The caller of the sequential specifications below.
Caller == 1

\* The owner ids sessions are created and listed for.
Owners == {<<"1">>, <<"1", " ">>, <<"2">>}

\* n times the character c.
Rep(c, n) == [i \in 1..n |-> c]

\* The questions saved: a short one, 30 and 31 ASCII characters, 11
\* characters of three bytes, and 29 ASCII characters before one of two
\* bytes.
Questions ==
  { <<"h", "e", "l", "l", "o">>,
    Rep("a", 30),
    Rep("a", 31),
    Rep("U+4E2D", 11),
    Rep("a", 29) \o <<"U+00E9">> }

\* The file system calls of get_session_info and of the loop around it.
ReadErrors == {"none", "read user_id", "read input", "metadata"}

\* One caller creates sessions, saves questions and lists the sessions of
\* an owner, one operation after the other, on a file system whose writes
\* succeed.
NextList ==
  \/ \E o \in Owners : create_session(Caller, o)
  \/ create_dir_all(Caller, TRUE)
  \/ \E id \in returned_ids : \E t \in Questions : save_user_input(Caller, id, t)
  \/ file_create(Caller, TRUE)
  \/ write_all(Caller, TRUE)
  \/ \E o \in Owners : \E ok \in BOOLEAN : get_user_sessions(Caller, o, ok)
  \/ \E id \in SessionIds : \E err \in ReadErrors : get_user_sessions_entry(Caller, id, err)
  \/ get_user_sessions_returns(Caller)
  \/ now < MaxTicks /\ advance(1)

SpecList == Init /\ [][NextList]_vars

\* A session directory after qa_reply: the owner, the question, the answer
\* and the image rendered from it.
answered_dir ==
  [exists |-> TRUE,
   files |-> [f \in FileNames |->
                CASE f = USER_ID_TXT -> Some(author(Caller))
                  [] f = INPUT_TXT -> Some(text_of(1))
                  [] f = RESPONSE_MD -> Some(text_of(2))
                  [] f = RESPONSE_PNG -> Some(text_of(2))
                  [] OTHER -> None],
   modified |-> 0]

\* The process holds sessions that were answered.
InitImages == \E dirs \in [SessionIds -> {no_dir, answered_dir}] : InitWith(dirs, 0)

\* One caller stores rendered images in the sessions, one call after the
\* other, while time passes.
NextImages ==
  \/ \E id \in SessionIds : \E original \in SessionIds : save_response_image(Caller, id, original)
  \/ \E ok \in BOOLEAN : fs_copy(Caller, ok)
  \/ now < MaxTicks /\ advance(1)

SpecImages == InitImages /\ [][NextImages]_vars

\* The longest expiry a sweep is run with, in days.
MaxDays == 2

\* periodic_cleanup(2) of the Discord client, and an expiry of no days.
ExpiryDays == {0, MaxDays}

\* The time at which the sweeping process starts.
Epoch == MaxDays * Day + TicksPerSecond

\* How long before the start the stored directories were last modified:
\* just then, a tick or a second before, and the longest expiry, a tick
\* more and a second more before.
Ages == {0, 1, TicksPerSecond, MaxDays * Day, MaxDays * Day + 1, MaxDays * Day + TicksPerSecond}

\* The images a stored session holds.
ImageSets == {{}, {RESPONSE_PNG}, {RESPONSE_PNG, PHOTO_JPG, SCAN_JPEG}}

\* A session directory left by an earlier run: with user_id.txt if owned,
\* with its question and its answer, and with the images imgs.
stored_dir(owned, imgs, age) ==
  [exists |-> TRUE,
   files |-> [f \in FileNames |->
                CASE f = USER_ID_TXT -> IF owned THEN Some(author(Caller)) ELSE None
                  [] f = INPUT_TXT -> Some(text_of(1))
                  [] f = RESPONSE_MD -> Some(text_of(2))
                  [] f \in imgs -> Some(<<"image">>)
                  [] OTHER -> None],
   modified |-> Epoch - age]

\* What an entry of data/sessions may be when the process starts.
StoredDirs ==
  {no_dir} \cup {stored_dir(owned, imgs, age) : owned \in BOOLEAN, imgs \in ImageSets, age \in Ages}

\* The process starts over a store left by earlier runs.
InitSweep == \E dirs \in [SessionIds -> StoredDirs] : InitWith(dirs, Epoch)

\* The sweep of main.rs and of the Discord client, run again and again
\* while time passes.
NextSweep ==
  \/ \E expiry_days \in ExpiryDays : \E ok \in BOOLEAN : periodic_cleanup(Caller, expiry_days, ok)
  \/ \E id \in SessionIds : \E err \in SweepErrors : periodic_cleanup_entry(Caller, id, err)
  \/ periodic_cleanup_returns(Caller)
  \/ now < Epoch + MaxTicks /\ advance(1)

SpecSweep == InitSweep /\ [][NextSweep]_vars

\* The two sweeping tasks of the program (the one main.rs spawns and the
\* one of the Discord client), one sweep right after the other within one
\* tick of the clock.
NextSweepAgain ==
  \E p \in Procs :
    /\ \A q \in Procs \ {p} : Idle(q)
    /\ \/ \E expiry_days \in ExpiryDays : \E ok \in BOOLEAN : periodic_cleanup(p, expiry_days, ok)
       \/ \E id \in SessionIds : \E err \in SweepErrors : periodic_cleanup_entry(p, id, err)
       \/ periodic_cleanup_returns(p)

SpecSweepAgain == InitSweep /\ [][NextSweepAgain]_vars

\* api_client.session_manager.periodic_cleanup(2) of the Discord client.
cleanup_expiry_days == 2

\* interval(Duration::from_secs(6 * 60 * 60)), in ticks.
cleanup_interval == 6 * 60 * 60 * TicksPerSecond

\* The number of sweeps the cleanup task is followed for.
MaxSweeps == 2

\* interval.tick() completes: at once when the task starts, and then one
\* interval after the tick before; the sweep begins.
interval_tick ==
  /\ \/ task[Caller].at = "idle"
     \/ task[Caller].at = "returned" /\ now = task[Caller].since + cleanup_interval
  /\ now < Epoch + MaxSweeps * cleanup_interval
  /\ periodic_cleanup(Caller, cleanup_expiry_days, TRUE)

\* The cleanup task is suspended in interval.tick() until the next tick is due.
interval_tick_awaits ==
  /\ task[Caller].at = "returned"
  /\ now < task[Caller].since + cleanup_interval
  /\ advance(task[Caller].since + cleanup_interval - now)

\* The cleanup task of the Discord client over a store left by earlier runs:
\* a sweep at the start and one every interval after it; a sweep takes no
\* time and no file system call fails.
NextCleanupTask ==
  \/ interval_tick
  \/ \E id \in SessionIds : periodic_cleanup_entry(Caller, id, "none")
  \/ periodic_cleanup_returns(Caller)
  \/ interval_tick_awaits

SpecCleanupTask == InitSweep /\ [][NextCleanupTask]_vars

\* A caller creates sessions while the sweeping task runs periodic_cleanup
\* with the expiry of the Discord client; no file system call fails.
NextRace ==
  \/ create_session(Caller, author(Caller))
  \/ create_dir_all(Caller, TRUE)
  \/ file_create(Caller, TRUE)
  \/ write_all(Caller, TRUE)
  \/ \E p \in Procs \ {Caller} : periodic_cleanup(p, MaxDays, TRUE)
  \/ \E p \in Procs \ {Caller} : \E id \in SessionIds : periodic_cleanup_entry(p, id, "none")
  \/ \E p \in Procs \ {Caller} : periodic_cleanup_returns(p)
  \/ now < MaxTicks /\ advance(1)

SpecRace == Init /\ [][NextRace]_vars

\* The command qa_reply: its call of the chat client, then its session, its
\* saves, the image and the reply.
NextCommand ==
  \/ acquire_owned(1)
  \/ send(1)
  \/ \E resp \in Responses : send_result(1, resp)
  \/ next_chunk(1)
  \/ on_event(1)
  \/ \E ok \in BOOLEAN : on_event_returns(1, ok)
  \/ drop_future(1)
  \/ qa_reply_creates_session
  \/ \E ok \in BOOLEAN : create_dir_all(1, ok)
  \/ \E ok \in BOOLEAN : file_create(1, ok)
  \/ \E ok \in BOOLEAN : write_all(1, ok)
  \/ spawn_blocking_cancelled(1)
  \/ qa_reply_saves_input
  \/ qa_reply_saves_markdown
  \/ \E outcome \in {"ok", "render failed", "create_dir_all failed"} : qa_reply_renders(outcome)
  \/ \E ok \in BOOLEAN : qa_reply_replies(ok)

SpecCommand == Init /\ [][NextCommand]_vars

\* ------------------------------------------------------------ claims
\* The state of the ChatClient state machine a call is in.  A call whose
\* future the caller dropped has left the machine.
State(c) ==
  CASE pc[c] \in {"idle", "waiting"} -> "Idle"
    [] pc[c] \in {"granted", "admitted"} -> "Admitted"
    [] pc[c] \in {"sending", "backoff"} -> "Sending"
    [] pc[c] \in {"streaming", "logged", "callback"} -> "Streaming"
    [] pc[c] = "completed" -> "Completed"
    [] pc[c] = "failed" -> "Failed"
    [] pc[c] = "dropped" -> "Dropped"

\* The calls that were admitted and are still running.
InFlight == {c \in Calls : State(c) \in {"Admitted", "Sending", "Streaming"}}
\* The calls whose permit is alive.
Holders == {c \in Calls : permit[c]}
\* The calls that have ended, or were never started.
Ended(c) == pc[c] \in {"idle", "completed", "failed", "dropped"}

\* C1: at most ConfiguredLimit calls are admitted and still running (sending,
\* sleeping in the backoff, or streaming), in every reachable state.
C1_InFlightAtMostLimit == Cardinality(InFlight) <= ConfiguredLimit

\* C1 witness: the limit is reached by calls in the send loop while a further
\* call waits.
C1_Witness ==
  /\ Cardinality(InFlight) = ConfiguredLimit
  /\ \E c \in Calls : pc[c] = "backoff"
  /\ \E c \in Calls : pc[c] = "waiting"

\* C2: an acquire made while fewer than ConfiguredLimit permits are held is
\* granted in that very step; one made while ConfiguredLimit permits are held
\* is queued, and a call gets a permit then only in a step in which a holder
\* gives its permit up.
C2_AcquireBlocksOnlyWhenFull ==
  [][\A c \in Calls :
       /\ (pc[c] = "idle" /\ pc'[c] # "idle") =>
            IF Cardinality(Holders) < ConfiguredLimit
            THEN permit'[c] /\ pc'[c] = "admitted"
            ELSE ~permit'[c] /\ pc'[c] = "waiting"
       /\ (~permit[c] /\ permit'[c] /\ Cardinality(Holders) = ConfiguredLimit) =>
            \E d \in Calls \ {c} : permit[d] /\ ~permit'[d]]_vars

\* C2 witness: a call that queued on a full gate was handed the permit of a
\* call that ended.
C2_Witness ==
  \E c, d \in Calls : pc[c] = "granted" /\ permit[c] /\ pc[d] = "completed"

\* C3: a call between its first POST and the end of its decoding holds its
\* permit, and every step that issues a POST, reads from the response stream
\* or invokes the callback is taken by a call that holds a permit.
C3_PermitHeldThroughRoundTrip ==
  /\ [](\A c \in Calls : State(c) \in {"Sending", "Streaming"} => permit[c])
  /\ [][\A c \in Calls :
          (\/ issued'[c] # issued[c]
           \/ byte_stream'[c] # byte_stream[c]
           \/ (pc[c] = "streaming" /\ pc'[c] # "streaming")
           \/ on_event_log'[c] # on_event_log[c]) => permit[c] /\ c \in InFlight]_vars

\* C3 witness: a call is inside its callback, holding the permit another call
\* waits for.
C3_Witness ==
  \E c, d \in Calls : pc[c] = "callback" /\ permit[c] /\ pc[d] = "waiting"

\* C4: a call that has ended (returned Ok, returned Err, or was dropped by its
\* caller) holds no permit, no permit is ever lost, and once every started
\* call has ended all ConfiguredLimit permits are free again.
C4_PermitReleasedOnEveryExit ==
  /\ \A c \in Calls : pc[c] \in {"completed", "failed", "dropped"} => ~permit[c]
  /\ permits + Cardinality(Holders) = ConfiguredLimit
  /\ (\A c \in Calls : Ended(c)) => permits = ConfiguredLimit

\* C4 witness: one call failed on a callback error, every other call was
\* dropped after it had sent, and all permits are free.
C4_Witness ==
  /\ \E c \in Calls :
       /\ pc[c] = "failed" /\ result[c].kind = "callback"
       /\ \A d \in Calls \ {c} : pc[d] = "dropped" /\ issued[d] > 0
  /\ permits = ConfiguredLimit

\* The attempts of call c so far all failed.
AllFailed(c) == \A i \in 1..Len(outcomes[c]) : outcomes[c][i].kind # "ok"
\* The last attempt of call c got a 2xx response.
Streamed(c) == outcomes[c] # <<>> /\ outcomes[c][Len(outcomes[c])].kind = "ok"
\* The kinds of the outcomes of call c's attempts, in order.
Kinds(c) == [i \in 1..Len(outcomes[c]) |-> outcomes[c][i].kind]

\* C5: a call whose attempts all fail (transport errors and non-2xx statuses
\* in any mix) has failed once its third attempt has failed, a call that
\* failed in the send loop has issued exactly 3 POSTs, and no call ever
\* issues a fourth.
C5_ExactlyThreeAttempts ==
  \A c \in Calls :
    /\ issued[c] <= 3
    /\ (AllFailed(c) /\ Len(outcomes[c]) = 3) => pc[c] = "failed"
    /\ (pc[c] = "failed" /\ AllFailed(c)) => issued[c] = 3 /\ Len(outcomes[c]) = 3

\* C5 witness: a call failed after a non-2xx status, a transport error and a
\* non-2xx status.
C5_Witness ==
  /\ pc[1] = "failed"
  /\ Kinds(1) = <<"status", "transport", "status">>
  /\ issued[1] = 3

\* C6: the i-th sleep of a call lasts 2^i seconds; every failed attempt but
\* the third is followed by one sleep, which ends before the next POST; and a
\* call whose k-th attempt got a 2xx response has issued exactly k POSTs,
\* slept k - 1 times and gone on to the decode loop.
C6_BackoffAndSuccess ==
  \A c \in Calls :
    LET k == Len(outcomes[c])
        failures == IF Streamed(c) THEN k - 1 ELSE k
    IN /\ \A i \in 1..Len(slept[c]) : slept[c][i] = 2 ^ i
       /\ Len(slept[c]) = IF failures = 3 THEN 2 ELSE failures
       /\ pc[c] = "sending" => Len(slept[c]) = issued[c] - 1
       /\ Streamed(c) =>
            /\ \A i \in 1..(k - 1) : outcomes[c][i].kind # "ok"
            /\ issued[c] = k
            /\ State(c) \in {"Streaming", "Completed", "Failed", "Dropped"}
            /\ result[c].kind \notin {"remote", "transport"}

\* C6 witness: fail, fail, success: 3 attempts, sleeps of 2 s and 4 s, and the
\* call is streaming.
C6_Witness ==
  /\ Kinds(1) = <<"transport", "status", "ok">>
  /\ issued[1] = 3
  /\ slept[1] = <<2, 4>>
  /\ pc[1] = "streaming"

\* C7 as claimed: the error of a call whose attempts all failed carries the
\* status and the full body of the last response when that attempt got a
\* non-2xx status, and the last cause when it was a transport error.
C7_ErrorCarriesFullBody ==
  \A c \in Calls :
    (pc[c] = "failed" /\ AllFailed(c)) =>
      LET last == outcomes[c][Len(outcomes[c])]
      IN /\ last.kind = "status" =>
              result[c].kind = "remote" /\ result[c].status = last.status
              /\ result[c].text = last.text
         /\ last.kind = "transport" =>
              result[c].kind = "transport" /\ result[c].text = last.text

\* C7 as amended: the error is determined by the last attempt alone: the
\* status of the last response and its body, or an empty body when the read
\* of that body failed, for a non-2xx status; the last cause for a transport
\* error.
C7_ErrorFromLastAttempt ==
  \A c \in Calls :
    (pc[c] = "failed" /\ AllFailed(c)) =>
      LET last == outcomes[c][Len(outcomes[c])]
      IN /\ last.kind = "status" =>
              result[c].kind = "remote" /\ result[c].status = last.status
              /\ result[c].text = IF last.readable THEN last.text ELSE <<>>
         /\ last.kind = "transport" =>
              result[c].kind = "transport" /\ result[c].text = last.text

\* C7 witness: a transport error, then two non-2xx responses that differ; the
\* error carries the status and the body of the last one.
C7_Witness ==
  /\ pc[1] = "failed"
  /\ Kinds(1) = <<"transport", "status", "status">>
  /\ outcomes[1][2].status = 429 /\ outcomes[1][3].status = 500
  /\ result[1].kind = "remote" /\ result[1].status = 500
  /\ result[1].text = <<"overloaded">>

\* C8: a call that got a 2xx response issues no further POST and never goes
\* back to the send loop, and a read error of the response stream or an error
\* of the callback takes it from Streaming straight to Failed.
C8_NoRetryOnceStreaming ==
  [][\A c \in Calls :
       /\ Streamed(c) =>
            /\ issued'[c] = issued[c] /\ outcomes'[c] = outcomes[c]
            /\ State(c)' \in {"Streaming", "Completed", "Failed", "Dropped"}
       /\ (/\ pc[c] = "streaming" /\ pc'[c] \notin {"streaming", "dropped"}
           /\ byte_stream[c] # <<>> /\ ~Head(byte_stream[c]).ok) =>
            pc'[c] = "failed" /\ result'[c].kind = "read"
       /\ (State(c) = "Streaming" /\ result'[c].kind \in {"read", "callback"}) =>
            pc'[c] = "failed"]_vars

\* C8 witness: a call sent twice, streamed, and failed on a read error after
\* a callback; it sent no third time.
C8_Witness ==
  /\ pc[1] = "failed" /\ result[1].kind = "read"
  /\ Kinds(1) = <<"status", "ok">>
  /\ issued[1] = 2
  /\ Len(on_event_log[1]) = 2

\* The transitions of the ChatClient state machine.
Transitions ==
  { <<"Idle", "Admitted">>, <<"Admitted", "Sending">>, <<"Sending", "Streaming">>,
    <<"Sending", "Failed">>, <<"Streaming", "Completed">>, <<"Streaming", "Failed">> }

\* C9: the state of a call changes only along the six transitions (a call
\* dropped by its caller leaves the machine; no call is dropped once it is
\* Completed or Failed), no step leaves Completed or Failed, and a call is in
\* Streaming only after an attempt that got a 2xx response.
C9_StateMachine ==
  /\ [](\A c \in Calls : State(c) = "Streaming" => Streamed(c))
  /\ [][\A c \in Calls :
          /\ (State(c)' # State(c) /\ State(c)' # "Dropped") =>
               <<State(c), State(c)'>> \in Transitions
          /\ State(c) \in {"Completed", "Failed", "Dropped"} => State(c)' = State(c)]_vars

\* C9 witness: one call is Completed and another Failed after its attempts
\* were used up.
C9_Witness ==
  \E c, d \in Calls :
    /\ pc[c] = "completed" /\ result[c].kind = "ok"
    /\ pc[d] = "failed" /\ result[d].kind = "transport"

\* The lines of a response body in arrival order, up to its first read error.
RECURSIVE ArrivedLines(_)
ArrivedLines(stream) ==
  IF stream = <<>> \/ ~Head(stream).ok THEN <<>>
  ELSE lines(Head(stream).text) \o ArrivedLines(Tail(stream))

\* The (event name, raw data) of every `data: ` line among ls, in order; name
\* is the name of the last `event: ` line before ls.
RECURSIVE DataLines(_, _)
DataLines(ls, name) ==
  IF ls = <<>> THEN <<>>
  ELSE IF Head(ls) # <<>> /\ Head(Head(ls)) = EVENT_PREFIX
  THEN DataLines(Tail(ls), Tail(Head(ls)))
  ELSE IF Head(ls) # <<>> /\ Head(Head(ls)) = DATA_PREFIX
  THEN << <<name, Tail(Head(ls))>> >> \o DataLines(Tail(ls), name)
  ELSE DataLines(Tail(ls), name)

IsPrefix(a, b) == Len(a) <= Len(b) /\ SubSeq(b, 1, Len(a)) = a

\* C10: the callback invocations of a call are, in order, the (event name,
\* raw data) of the first `data: ` lines of its response; so are the entries
\* of the event log; an entry is in the log before its callback is invoked
\* and no further entry is logged while a callback runs; the event log
\* returned on Completed equals the sequence of the callback invocations.
C10_CallbacksInArrivalOrder ==
  \A c \in Calls :
    Streamed(c) =>
      LET expected == DataLines(ArrivedLines(outcomes[c][Len(outcomes[c])].stream), <<>>)
      IN /\ IsPrefix(on_event_log[c], expected)
         /\ IsPrefix(dec[c].events, expected)
         /\ Len(dec[c].events) = Len(on_event_log[c]) + (IF pc[c] = "logged" THEN 1 ELSE 0)
         /\ pc[c] = "completed" =>
              result[c].kind = "ok" /\ result[c].events = on_event_log[c]

\* C10 witness: a call Completed after three callbacks, for data lines of
\* three different events that arrived in two chunks.
C10_Witness ==
  /\ pc[1] = "completed"
  /\ on_event_log[1] = << <<<<>>, <<"jFull">>>>, <<<<"fastAnswer">>, <<"jFull">>>>,
                          <<<<"answer">>, <<"jBlank">>>> >>
  /\ result[1].events = on_event_log[1]

\* The last element of a non-empty sequence.
Last(q) == q[Len(q)]

\* C11: when the callback returns an error, or the read of the next chunk
\* fails, the call ends Failed with that error in that very step: the decoder's
\* accumulators and event log are left as they were, no callback is invoked,
\* and the result carries no content and no events.  Once Failed, nothing of
\* the call changes any more.
C11_ErrorStopsDecoding ==
  [][\A c \in Calls :
       LET callback_failed ==
             /\ pc[c] = "callback"
             /\ Len(on_event_ret'[c]) = Len(on_event_ret[c]) + 1
             /\ ~Last(on_event_ret'[c])
           read_failed ==
             /\ pc[c] = "streaming"
             /\ byte_stream[c] # <<>>
             /\ ~Head(byte_stream[c]).ok
             /\ byte_stream'[c] = Tail(byte_stream[c])
           stopped ==
             /\ pc'[c] = "failed"
             /\ dec'[c] = dec[c]
             /\ on_event_log'[c] = on_event_log[c]
             /\ result'[c].content = <<>>
             /\ result'[c].events = <<>>
       IN /\ callback_failed => stopped /\ result'[c].kind = "callback"
          /\ read_failed => stopped /\ result'[c].kind = "read"
          /\ pc[c] = "failed" =>
               /\ pc'[c] = "failed"
               /\ result'[c] = result[c]
               /\ dec'[c] = dec[c]
               /\ byte_stream'[c] = byte_stream[c]
               /\ on_event_log'[c] = on_event_log[c]
               /\ on_event_ret'[c] = on_event_ret[c]]_vars

\* C11 witness: the callback failed on an event while a further chunk was
\* still to be read; the call is Failed and the chunk is never read.
C11_Witness ==
  \E c \in Calls :
    /\ pc[c] = "failed"
    /\ result[c].kind = "callback"
    /\ on_event_ret[c] # <<>> /\ ~Last(on_event_ret[c])
    /\ byte_stream[c] # <<>>

\* Whether the i-th callback of the call was for an answer or fastAnswer event
\* whose payload is not JSON.
BadPayload(c, i) ==
  /\ on_event_log[c][i][1] \in {<<"answer">>, <<"fastAnswer">>}
  /\ serde_json_from_str(on_event_log[c][i][2]) = None

\* C12: a data line of an answer or fastAnswer event whose payload is not
\* valid JSON aborts decoding: it is the last line handled, and once its
\* callback has returned the call is Failed (or was dropped), never decoding
\* on and never Completed.
C12_InvalidJsonAborts ==
  \A c \in Calls : \A i \in 1..Len(on_event_log[c]) :
    BadPayload(c, i) =>
      /\ i = Len(on_event_log[c])
      /\ pc[c] \in {"callback", "failed", "dropped"}

\* C13: once an answer or fastAnswer event with finish_reason "stop" has
\* been processed (done is set), no later frame is processed: no entry is
\* appended to the event log, no callback is invoked, no accumulator changes
\* and no further chunk is read.
C13_NothingAfterStop ==
  [][\A c \in Calls :
       dec[c].done =>
         /\ dec'[c].events = dec[c].events
         /\ on_event_log'[c] = on_event_log[c]
         /\ dec'[c].fast_answer = dec[c].fast_answer
         /\ dec'[c].answer_delta = dec[c].answer_delta
         /\ byte_stream'[c] = byte_stream[c]]_vars

\* The fields a raw payload carries: none when it is not a JSON document.
Payload(data) ==
  IF Len(data) = 1 /\ data[1] \in DOMAIN json_doc
  THEN json_doc[data[1]]
  ELSE [delta |-> None, message |-> None, finish |-> None]

\* A text field that is present and not blank, as a text; else the empty text.
IsBlank(t) == \A i \in 1..Len(t) : t[i] = " "
TextOf(opt) == IF opt # None /\ ~IsBlank(opt[1]) THEN opt[1] ELSE <<>>

\* The response body the call streamed, and its (event name, raw data) pairs.
Body(c) == outcomes[c][Len(outcomes[c])].stream
Arrived(c) == DataLines(ArrivedLines(Body(c)), <<>>)

\* The call Completed on a body of answer events read to its end, of which
\* only the last carries finish_reason "stop".
AnswerStream(c) ==
  /\ pc[c] = "completed"
  /\ \A i \in 1..Len(Body(c)) : Body(c)[i].ok
  /\ Arrived(c) # <<>>
  /\ \A i \in 1..Len(Arrived(c)) :
       /\ Arrived(c)[i][1] = <<"answer">>
       /\ Payload(Arrived(c)[i][2]).finish = Some("stop") <=> i = Len(Arrived(c))

\* The concatenation of the deltas of es that are present and not blank.
RECURSIVE Deltas(_)
Deltas(es) ==
  IF es = <<>> THEN <<>>
  ELSE TextOf(Payload(Head(es)[2]).delta) \o Deltas(Tail(es))

\* The message.content that leads the deltas: that of the first event with a
\* non-blank message.content among the events before the first non-blank
\* delta, the empty text when there is none.
Lead(es) ==
  LET with_delta == {i \in 1..Len(es) : TextOf(Payload(es[i][2]).delta) # <<>>}
      before == {i \in 1..Len(es) : \A j \in with_delta : i < j}
      with_message == {i \in before : TextOf(Payload(es[i][2]).message) # <<>>}
  IN IF with_message = {} THEN <<>>
     ELSE TextOf(Payload(es[CHOOSE i \in with_message : \A j \in with_message : i <= j][2]).message)

\* C14 as stated: for a stream of answer events of which only the last carries
\* finish_reason "stop", the returned content is the concatenation of the
\* deltas that are present and not blank, and the event log has one entry per
\* data line in arrival order.
C14_ContentIsDeltas ==
  \A c \in Calls :
    AnswerStream(c) =>
      /\ result[c].content = Deltas(Arrived(c))
      /\ result[c].events = Arrived(c)

\* C14 amended: for such a stream the returned content is the concatenation
\* of the deltas that are present and not blank, led by the message.content
\* of the first event that carries a non-blank one before any non-blank delta
\* arrived (nothing when there is no such event); the event log has one entry
\* per data line in arrival order.
C14_ContentIsLeadThenDeltas ==
  \A c \in Calls :
    AnswerStream(c) =>
      /\ result[c].content = Lead(Arrived(c)) \o Deltas(Arrived(c))
      /\ result[c].events = Arrived(c)

\* C14 witness: a call Completed on four answer events whose deltas are a
\* text, a blank, absent and a text with stop.
C14_Witness ==
  /\ AnswerStream(1)
  /\ Len(result[1].events) = 4
  /\ \E i \in 1..4 : Payload(Arrived(1)[i][2]).delta = Some(<<" ">>)
  /\ result[1].content = <<"Hi", " there">>

\* The accumulator of a kind of event among the decoder's locals d.
Accumulator(d, kind) == IF kind = <<"fastAnswer">> THEN d.fast_answer ELSE d.answer_delta
OtherKind(kind) == IF kind = <<"fastAnswer">> THEN <<"answer">> ELSE <<"fastAnswer">>

\* C15: in the step that handles an answer or fastAnswer event (its callback
\* returned Ok), the event's accumulator takes the non-blank delta, and then
\* the non-blank message.content exactly if it is still empty; an
\* accumulator that was not empty takes the delta alone; the outcome is a
\* function of the event and of its own accumulator, and the accumulator of the
\* other kind is left as it was.
C15_MessageOnlyIntoEmpty ==
  [][\A c \in Calls :
       ( /\ pc[c] = "callback"
         /\ Len(on_event_ret'[c]) = Len(on_event_ret[c]) + 1
         /\ Last(on_event_ret'[c])
         /\ Last(on_event_log[c])[1] \in {<<"answer">>, <<"fastAnswer">>} ) =>
       LET kind == Last(on_event_log[c])[1]
           fields == Payload(Last(on_event_log[c])[2])
           own == Accumulator(dec[c], kind)
           after_delta == own \o TextOf(fields.delta)
       IN /\ Accumulator(dec'[c], kind) =
               IF after_delta = <<>> THEN TextOf(fields.message) ELSE after_delta
          /\ own # <<>> => Accumulator(dec'[c], kind) = own \o TextOf(fields.delta)
          /\ Accumulator(dec'[c], OtherKind(kind)) = Accumulator(dec[c], OtherKind(kind))]_vars

\* C15 witness: the answer accumulator took the message of an answer event
\* while the fastAnswer accumulator was not empty, and the delta of the next
\* answer event after it; the call Completed.
C15_Witness ==
  /\ pc[1] = "completed"
  /\ dec[1].fast_answer = <<"Hi">>
  /\ dec[1].answer_delta = <<"Full", " there">>

\* The text accumulated from the events of one kind among es, in arrival
\* order, starting from acc.
RECURSIVE Accumulated(_, _, _)
Accumulated(es, kind, acc) ==
  IF es = <<>> THEN acc
  ELSE IF Head(es)[1] # kind THEN Accumulated(Tail(es), kind, acc)
  ELSE LET fields == Payload(Head(es)[2])
           after_delta == acc \o TextOf(fields.delta)
       IN Accumulated(Tail(es), kind,
                      IF after_delta = <<>> THEN TextOf(fields.message) ELSE after_delta)

\* C16: the content of a Completed call is all the text accumulated from its
\* fastAnswer events followed by all the text accumulated from its answer
\* events, whatever the order the events arrived in.
C16_FastAnswerThenAnswer ==
  \A c \in Calls :
    pc[c] = "completed" =>
      result[c].content = Accumulated(result[c].events, <<"fastAnswer">>, <<>>)
                          \o Accumulated(result[c].events, <<"answer">>, <<>>)

\* C16 witness: an answer event arrived first, fastAnswer events after it and
\* answer events again; the content starts with the fastAnswer text.
C16_Witness ==
  /\ pc[1] = "completed"
  /\ Len(result[1].events) = 5
  /\ result[1].events[1][1] = <<"answer">>
  /\ result[1].events[2][1] = <<"fastAnswer">>
  /\ result[1].content = <<"Both", "Hi", " there">>

\* The last attempt of the call got a 2xx response whose stream ends without
\* a read error and without any `data: ` line.
NoDataStream(c) ==
  /\ Streamed(c)
  /\ \A i \in 1..Len(Body(c)) : Body(c)[i].ok
  /\ Arrived(c) = <<>>

\* C17: a call whose 2xx response streams no `data: ` line and ends never
\* fails and never invokes the callback: it reads the stream and, unless its
\* future is dropped, ends Completed with the empty content and an empty
\* event log.
C17_EmptyStreamCompletes ==
  \A c \in Calls :
    NoDataStream(c) =>
      /\ pc[c] \in {"streaming", "completed", "dropped"}
      /\ pc[c] = "streaming" /\ byte_stream[c] = <<>> => ENABLED next_chunk(c)
      /\ on_event_log[c] = <<>>
      /\ on_event_ret[c] = <<>>
      /\ dec[c].events = <<>>
      /\ pc[c] = "completed" =>
           /\ result[c].kind = "ok"
           /\ result[c].content = <<>>
           /\ result[c].events = <<>>

\* C17 witness: a call Completed on a stream of one chunk that holds an
\* `event: ` line and no `data: ` line.
C17_Witness ==
  /\ pc[1] = "completed"
  /\ NoDataStream(1)
  /\ Body(1) # <<>>
  /\ result[1].content = <<>>
  /\ result[1].events = <<>>

\* C19: create_session returns an error whenever creating the directory or
\* writing user_id.txt failed, and whenever it has returned an id the
\* directory of that id exists and its user_id.txt holds the owner's id.
C19_CreateSessionAllOrNothing ==
  \A p \in Procs :
    task[p].at = "returned" /\ task[p].op = "create_session" =>
      /\ task[p].failed => task[p].ret = "err"
      /\ task[p].ret = "ok" =>
           /\ fs[task[p].id].exists
           /\ fs[task[p].id].files[USER_ID_TXT] = Some(author(p))

\* C20: in the step in which save_user_input or save_response_markdown
\* returns, it returns an error if its file write failed, and it returns
\* success only if the file then holds exactly the given text.
C20_SaveFailsWhenWriteFails ==
  [][\A p \in Procs :
       ( /\ task[p].op \in {"save_user_input", "save_response_markdown"}
         /\ task[p].at # "returned"
         /\ task'[p].at = "returned" ) =>
       /\ task'[p].failed => task'[p].ret = "err"
       /\ task'[p].ret = "ok" =>
            fs'[task[p].id].files[task[p].file] = Some(task[p].arg)]_vars

\* The save operations of the session manager.
Saves == {"save_user_input", "save_response_markdown"}

\* C21: with one operation at a time, every step of a save leaves every file
\* but the artifact it writes as it was, in its session and in every other,
\* and when the save returns success its artifact holds exactly the text
\* given to it, whatever the file held before.
C21_SaveOverwrites ==
  [][\A p \in Procs :
       (task[p].op \in Saves /\ ~Idle(p) /\ task'[p] # task[p]) =>
       /\ \A id \in SessionIds : \A f \in FileNames :
            <<id, f>> # <<task[p].id, task[p].file>> => fs'[id].files[f] = fs[id].files[f]
       /\ (task'[p].at = "returned" /\ task'[p].ret = "ok") =>
            fs'[task[p].id].files[task[p].file] = Some(task[p].arg)]_vars

\* C22: whenever a save has written its text without a failure and returns,
\* however its steps were interleaved with those of the other saves, the
\* artifact holds one of the texts given to the saves, in full and alone.
C22_ConcurrentSavesLastWriterWins ==
  [][\A p \in Procs :
       ( /\ task[p].op \in Saves
         /\ task[p].at = "write_all"
         /\ task'[p].at = "returned"
         /\ ~task'[p].failed ) =>
       \E q \in Procs : fs'[task[p].id].files[task[p].file] = Some(text_of(q))]_vars

\* C23: in the step in which create_session(o) returns an id, the directory
\* of the id exists and its user_id.txt holds o; and no step removes the
\* directory of an id that create_session has returned, or changes or
\* removes its user_id.txt.
C23_OwnerIsFixed ==
  [][/\ \A p \in Procs :
          ( /\ task[p].op = "create_session"
            /\ task[p].at # "returned"
            /\ task'[p].at = "returned" ) =>
          /\ fs'[task[p].id].exists
          /\ fs'[task[p].id].files[USER_ID_TXT] = Some(task[p].arg)
     /\ \A id \in returned_ids :
          /\ fs[id].exists => fs'[id].exists
          /\ fs'[id].files[USER_ID_TXT] = fs[id].files[USER_ID_TXT]]_vars

\* A listing that has returned its sessions without a failing file system
\* call.
Listed(p) ==
  /\ task[p].op = "get_user_sessions"
  /\ task[p].at = "returned"
  /\ task[p].ret = "ok"
  /\ ~task[p].failed

\* The ids of the sessions a listing returned.
ListedIds(p) == {task[p].out[i].id : i \in 1..Len(task[p].out)}

\* The sessions created for the owner o: create_session(o) wrote o into
\* their user_id.txt, and no write fails in SpecList.
CreatedFor(o) == {id \in SessionIds : fs[id].exists /\ fs[id].files[USER_ID_TXT] = Some(o)}

\* C24: get_user_sessions(o) returns a session if and only if the session
\* was created with create_session(o) for the same owner id o.
C24_ListsExactlyOwned ==
  \A p \in Procs : Listed(p) => ListedIds(p) = CreatedFor(task[p].arg)

\* C25: the sessions get_user_sessions returns are in the order of their
\* directories' modification times, latest first: of two positions the
\* earlier one holds a directory modified at the same time or later.
C25_NewestFirst ==
  \A p \in Procs :
    Listed(p) =>
      \A i \in 1..Len(task[p].out) : \A j \in 1..Len(task[p].out) :
        i < j => fs[task[p].out[i].id].modified >= fs[task[p].out[j].id].modified

\* C25 witness: a listing returned two sessions, the one created later and
\* modified later in front.
C25_Witness ==
  \E p \in Procs :
    /\ Listed(p)
    /\ Len(task[p].out) = 2
    /\ task[p].out[1].id > task[p].out[2].id
    /\ fs[task[p].out[1].id].modified > fs[task[p].out[2].id].modified

\* The session id is the only one of the owner o in the store (no other
\* session carries o, with or without whitespace around it), and a question
\* has been saved to it.
OnlySessionOf(o, id) ==
  /\ CreatedFor(o) = {id}
  /\ fs[id].files[INPUT_TXT] # None
  /\ \A other \in SessionIds \ {id} :
       fs[other].exists =>
         /\ fs[other].files[USER_ID_TXT] # None
         /\ trim(fs[other].files[USER_ID_TXT][1]) # trim(o)

\* The number of characters of the question that the preview must show.
PreviewChars == 30

\* C26: when get_user_sessions(o) ends, no file system call of it having
\* failed, on a store whose only session of o was created by
\* create_session(o) and given the question t by save_user_input, it has
\* returned exactly that session, and the input_preview is t if t has at
\* most 30 characters and else begins with the first 30 characters of t.
C26_PreviewOfSavedInput ==
  \A p \in Procs : \A id \in SessionIds :
    ( /\ task[p].op = "get_user_sessions"
      /\ task[p].at = "returned"
      /\ ~task[p].failed
      /\ OnlySessionOf(task[p].arg, id) ) =>
    /\ task[p].ret = "ok"
    /\ Len(task[p].out) = 1
    /\ task[p].out[1].id = id
    /\ LET t == fs[id].files[INPUT_TXT][1]
           preview == task[p].out[1].input_preview
       IN IF Len(t) <= PreviewChars
          THEN preview = t
          ELSE /\ Len(preview) >= PreviewChars
               /\ SubSeq(preview, 1, PreviewChars) = SubSeq(t, 1, PreviewChars)

\* The step in which the sweep of p visits the session id, no file system
\* call of the sweep having failed.
Visits(p, id) ==
  /\ task[p].op = "periodic_cleanup"
  /\ id \in task[p].todo
  /\ id \notin task'[p].todo
  /\ ~task'[p].failed

\* The session has its user_id.txt.
Owned(id) == fs[id].files[USER_ID_TXT] # None

\* The directory was last modified more than days days before the time t.
OlderThan(id, t, days) == t - fs[id].modified > days * Day

\* The files that keep the texts of a session and its owner.
Texts == {USER_ID_TXT, INPUT_TXT, RESPONSE_MD}

\* The files with the extension png, jpg or jpeg.
ImageFiles == {f \in FileNames : path_extension[f] \in {Some("png"), Some("jpg"), Some("jpeg")}}

\* C27: when periodic_cleanup(d) visits a session that has user_id.txt and
\* whose directory was last modified more than d days before the sweep
\* began, then after the visit the session has no file with the extension
\* png, jpg or jpeg, it has the .cleaned marker, its input.txt, response.md
\* and user_id.txt are as before, and its image count is 0.
C27_ExpiredSessionIsPurged ==
  [][\A p \in Procs : \A id \in SessionIds :
       (Visits(p, id) /\ Owned(id) /\ OlderThan(id, task[p].since, task[p].days)) =>
       /\ \A f \in ImageFiles : fs'[id].files[f] = None
       /\ fs'[id].files[CLEANED] # None
       /\ \A f \in Texts : fs'[id].files[f] = fs[id].files[f]
       /\ (get_session_info(id, "none").images)' = 0]_vars

\* C28: when periodic_cleanup(d) visits a session directory that has no
\* user_id.txt, then after the visit the directory has no file with the
\* extension png, jpg or jpeg, whatever d is and whenever the directory was
\* last modified.
C28_OrphanIsPurged ==
  [][\A p \in Procs : \A id \in SessionIds :
       (Visits(p, id) /\ ~Owned(id)) => \A f \in ImageFiles : fs'[id].files[f] = None]_vars

\* C28 witness: a sweep with the longest expiry, begun at the start, has
\* visited a directory without user_id.txt and purged it in the same tick:
\* the directory has no image and carries the marker of that time.
C28_Witness ==
  \E p \in Procs : \E id \in SessionIds :
    /\ task[p].op = "periodic_cleanup"
    /\ task[p].at = "entries"
    /\ task[p].days = MaxDays
    /\ task[p].since = now
    /\ ~task[p].failed
    /\ id \notin task[p].todo
    /\ fs[id].exists
    /\ ~Owned(id)
    /\ fs[id].modified = now
    /\ fs[id].files[CLEANED] = Some(cleaned_text(now))
    /\ \A f \in ImageFiles : fs[id].files[f] = None

\* The sweep in which p is engaged comes after a sweep of another task with
\* the same expiry that has returned, no file system call of it having
\* failed.
SweptBefore(p) ==
  \E q \in Procs \ {p} :
    /\ task[q].op = "periodic_cleanup"
    /\ task[q].at = "returned"
    /\ ~task[q].failed
    /\ task[q].days = task[p].days

\* C29: a sweep run right after a sweep with the same expiry returns
\* without an error, and each of its visits leaves the session with the same
\* files, and with the same content in every file but the .cleaned marker.
C29_SweepIsIdempotent ==
  [][\A p \in Procs :
       (task[p].op = "periodic_cleanup" /\ task[p].at = "entries" /\ SweptBefore(p)) =>
       /\ task'[p].at = "returned" => task'[p].ret = "ok"
       /\ \A id \in SessionIds :
            /\ entries(fs'[id]) = entries(fs[id])
            /\ \A f \in FileNames \ {CLEANED} : fs'[id].files[f] = fs[id].files[f]]_vars

\* C29 witness: the second sweep has returned after the first, and a
\* session that has its owner and its texts was purged: it carries the
\* marker and no image.
C29_Witness ==
  \E p \in Procs : \E id \in SessionIds :
    /\ SweptBefore(p)
    /\ task[p].op = "periodic_cleanup"
    /\ task[p].at = "returned"
    /\ task[p].days = MaxDays
    /\ Owned(id)
    /\ fs[id].files[CLEANED] # None
    /\ fs[id].files[INPUT_TXT] # None
    /\ \A f \in ImageFiles : fs[id].files[f] = None

\* C30: when periodic_cleanup(d) visits a session that has user_id.txt and
\* whose directory was last modified d days before the sweep began or
\* later, the visit changes nothing of the session: its images stay, it
\* gets no marker, and every file and the directory are as before.
C30_FreshSessionIsKept ==
  [][\A p \in Procs : \A id \in SessionIds :
       ( /\ task[p].op = "periodic_cleanup"
         /\ id \in task[p].todo
         /\ id \notin task'[p].todo
         /\ Owned(id)
         /\ ~OlderThan(id, task[p].since, task[p].days) ) =>
       fs'[id] = fs[id]]_vars

\* C30 witness: a sweep with the longest expiry has visited a session that
\* has user_id.txt and was last modified exactly that long before the sweep
\* began: the session still has its three images and no marker.
C30_Witness ==
  \E p \in Procs : \E id \in SessionIds :
    /\ task[p].op = "periodic_cleanup"
    /\ task[p].at = "entries"
    /\ task[p].days = MaxDays
    /\ id \notin task[p].todo
    /\ fs[id].exists
    /\ Owned(id)
    /\ task[p].since - fs[id].modified = MaxDays * Day
    /\ \A f \in {RESPONSE_PNG, PHOTO_JPG, SCAN_JPEG} : fs[id].files[f] # None
    /\ fs[id].files[CLEANED] = None

\* The bytes of a response body: the texts of its chunks, one after the
\* other.
RECURSIVE Bytes(_)
Bytes(stream) == IF stream = <<>> THEN <<>> ELSE Head(stream).text \o Bytes(Tail(stream))

\* C33: two calls that Completed on response bodies with the same bytes,
\* however the bytes were cut into chunks, returned the same content and
\* the same event log and invoked the callback with the same events.
C33_ChunkingDoesNotMatter ==
  \A c \in Calls : \A d \in Calls :
    ( /\ pc[c] = "completed"
      /\ pc[d] = "completed"
      /\ Bytes(Body(c)) = Bytes(Body(d)) ) =>
    /\ result[c].content = result[d].content
    /\ result[c].events = result[d].events
    /\ on_event_log[c] = on_event_log[d]

\* A line that names an event, a line that carries data.
IsEventLine(line) == line # <<>> /\ Head(line) = EVENT_PREFIX
IsDataLine(line) == line # <<>> /\ Head(line) = DATA_PREFIX

\* The position among ls of its n-th data line.
NthDataLine(ls, n) ==
  CHOOSE k \in 1..Len(ls) :
    IsDataLine(ls[k]) /\ Cardinality({j \in 1..k : IsDataLine(ls[j])}) = n

\* The name of the last event line among the first k - 1 lines of ls, the
\* empty name when there is none.
NameBefore(ls, k) ==
  LET before == {j \in 1..(k - 1) : IsEventLine(ls[j])}
  IN IF before = {} THEN <<>>
     ELSE Tail(ls[CHOOSE j \in before : \A i \in before : i <= j])

\* C34: the n-th event a call logged and passed to the callback bears the
\* name of the last `event: ` line that arrived before the n-th `data: ` line
\* of its response, in whichever chunk that line arrived and whatever data
\* lines lie in between, and the empty name when no `event: ` line arrived
\* before it; handling an event of the empty name changes no accumulator.
C34_DataLineTakesLastEventName ==
  /\ [](\A c \in Calls :
          Streamed(c) =>
            LET ls == ArrivedLines(Body(c))
            IN \A n \in 1..Len(on_event_log[c]) :
                 /\ on_event_log[c][n][1] = NameBefore(ls, NthDataLine(ls, n))
                 /\ dec[c].events[n][1] = NameBefore(ls, NthDataLine(ls, n)))
  /\ [][\A c \in Calls :
          ( /\ pc[c] = "callback"
            /\ dec[c].current_event = <<>>
            /\ Len(on_event_ret'[c]) = Len(on_event_ret[c]) + 1 ) =>
          /\ dec'[c].fast_answer = dec[c].fast_answer
          /\ dec'[c].answer_delta = dec[c].answer_delta]_vars

\* C34 witness: the second callback of a call bears the name fastAnswer, whose
\* `event: ` line ended the first chunk while its data line began the second;
\* the first data line, which no `event: ` line preceded, was logged with the
\* empty name and has changed no accumulator.
C34_Witness ==
  /\ pc[1] = "callback"
  /\ Len(Body(1)) = 2
  /\ Last(lines(Body(1)[1].text)) = <<EVENT_PREFIX, "fastAnswer">>
  /\ byte_stream[1] = <<>>
  /\ on_event_log[1] = << <<<<>>, <<"jFull">>>>, <<<<"fastAnswer">>, <<"jFull">>>> >>
  /\ on_event_ret[1] = <<TRUE>>
  /\ dec[1].fast_answer = <<>>
  /\ dec[1].answer_delta = <<>>

\* C35: when the callback returned Ok for an event whose name is neither
\* fastAnswer nor answer, the event is in the event log and was passed to the
\* callback, and handling it leaves both accumulators and the done flag as
\* they were, whatever delta, message or finish_reason its payload carries.
C35_OtherEventsChangeNothing ==
  [][\A c \in Calls :
       ( /\ pc[c] = "callback"
         /\ dec[c].current_event \notin {<<"fastAnswer">>, <<"answer">>}
         /\ Len(on_event_ret'[c]) = Len(on_event_ret[c]) + 1
         /\ Last(on_event_ret'[c]) ) =>
       /\ Last(dec[c].events) = <<dec[c].current_event, dec[c].data>>
       /\ Last(on_event_log[c]) = <<dec[c].current_event, dec[c].data>>
       /\ dec'[c].events # <<>>
       /\ IsPrefix(dec[c].events, dec'[c].events)
       /\ dec'[c].fast_answer = dec[c].fast_answer
       /\ dec'[c].answer_delta = dec[c].answer_delta
       /\ dec'[c].done = dec[c].done]_vars

\* C35 witness: a call Completed at the end of a stream whose first event, a
\* flowNodeStatus, carried a delta and finish_reason "stop": the event is the
\* first of the log, the decoding went on to the answer event after it, and
\* the content is that answer's delta alone.
C35_Witness ==
  /\ pc[1] = "completed"
  /\ result[1].events = << <<<<"flowNodeStatus">>, <<"jThereStop">>>>,
                           <<<<"answer">>, <<"jHi">>>> >>
  /\ on_event_log[1] = result[1].events
  /\ result[1].content = <<"Hi">>
  /\ ~dec[1].done

\* C36: when the call qa_reply makes (stream: false) Completed on a 2xx
\* response whose body is one JSON completion object without framing, the
\* returned content is that object's choices[0].message.content.
C36_PlainJsonIsContent ==
  \A c \in Calls :
    \A json \in DOMAIN json_doc :
      ( /\ pc[c] = "completed"
        /\ Body(c) = <<chunk(completion_object(json))>>
        /\ json_doc[json].message # None ) =>
      result[c].content = json_doc[json].message[1]

\* The call holds a permit and runs in the function body.
Running(c) == pc[c] \in {"admitted", "sending", "backoff", "streaming", "logged", "callback"}

C38_AdmittedCallsEnd ==
  /\ [](\A c \in Calls : issued[c] <= max_retries /\ attempts[c] <= max_retries)
  /\ \A c \in Calls : pc[c] = "admitted" ~> pc[c] \in {"completed", "failed", "dropped"}

\* C38 witness: a call whose first two POSTs failed Completed on the third at
\* the event that ended the answer, with a chunk of the stream still unread.
C38_Witness ==
  /\ pc[1] = "completed"
  /\ issued[1] = max_retries
  /\ dec[1].done
  /\ byte_stream[1] # <<>>
  /\ ~permit[1]

\* C32: a save_response_image that returns Ok returns a path in the directory
\* of its session that named no file before, the session holds one image
\* more than before, and the original is where it was with the content it had.
C32_FreshPathPerCall ==
  [][\A p \in Procs :
       ( /\ task[p].op = "save_response_image"
         /\ task[p].at = "copy"
         /\ task'[p].at = "returned"
         /\ task'[p].ret = "ok" ) =>
       /\ task'[p].id = task[p].id
       /\ fs[task[p].id].files[task'[p].file] = None
       /\ fs'[task[p].id].files[task'[p].file] # None
       /\ Cardinality(images_of(fs'[task[p].id])) = Cardinality(images_of(fs[task[p].id])) + 1
       /\ fs'[task[p].original].files[RESPONSE_PNG] = fs[task[p].original].files[RESPONSE_PNG]
       /\ fs'[task[p].original].files[RESPONSE_PNG] # None]_vars

\* C39: however the steps of create_session and of a periodic_cleanup sweep
\* interleave, the sweep writes the .cleaned marker into a session that
\* create_session is creating or has created only if the session's directory
\* was last modified more than the expiry before the sweep began.
C39_NewSessionIsNoOrphan ==
  [][\A p \in Procs : \A id \in allocated :
       ( /\ task[p].op = "periodic_cleanup"
         /\ fs[id].files[CLEANED] = None
         /\ fs'[id].files[CLEANED] # None ) =>
       OlderThan(id, task[p].since, task[p].days)]_vars

\* C31: while the cleanup task sweeps every interval with its expiry, no
\* session that has user_id.txt holds an image once its directory was last
\* modified longer ago than the expiry and one interval, and no step changes
\* a session's input.txt, response.md or user_id.txt.
C31_ImagesGoWithinExpiryAndInterval ==
  /\ [](\A id \in SessionIds :
          (fs[id].exists /\ Owned(id) /\ images_of(fs[id]) # {}) =>
            now - fs[id].modified <= cleanup_expiry_days * Day + cleanup_interval)
  /\ [][\A id \in SessionIds : \A f \in Texts : fs'[id].files[f] = fs[id].files[f]]_vars

\* C18: when get_chat_response returned a content that is empty or all
\* blank, the command does not invoke the image renderer and sends no image
\* reply.
C18_BlankContentIsNoAnswer ==
  pc[1] = "completed" /\ IsBlank(result[1].content) =>
    /\ rendered = <<>>
    /\ replies = <<>>

====
